---- MODULE Spec2Model ----
(***************************************************************************)
(* A model of the adaptive batch inference-and-scoring engine of           *)
(* lighteval's TransformersModel                                           *)
(* (src/src/lighteval/models/transformers/transformers_model.py).          *)
(*                                                                         *)
(* Three specifications share the module:                                  *)
(*   Spec          a whole scoring call (greedy_until, _loglikelihood_     *)
(*                 tokens, _loglikelihood_single_token,                    *)
(*                 greedy_until_multi_turn, dpo_inference) run by every    *)
(*                 data-parallel process, with the collectives between     *)
(*                 them;                                                   *)
(*   SpecProbe     one call of _get_batch_size, probe by probe, with the   *)
(*                 fairness of a call that keeps running;                  *)
(*   SpecLogprob   prepare_batch_logprob and the score extraction of       *)
(*                 _loglikelihood_tokens on one request.                   *)
(* A specification leaves the variables of the others at their idle value. *)
(***************************************************************************)
EXTENDS Integers, Sequences, FiniteSets, TLC

VARIABLES
    requests,            \* the caller's list: [len, use_logits] per request
    path,                \* which scoring method is called
    override_bs,         \* the caller's override_bs argument, an Optional[int]
    accelerator,         \* 0: self.accelerator is None; P >= 1: P processes
    num_dataset_splits,  \* number of groups of the request dataset
    max_length,          \* self._max_length
    capacity,            \* per process: rows * columns one forward pass can hold
    proc,                \* per process: where it is in the call, and its locals
    probe,               \* SpecProbe: one _get_batch_size call
    scoring,             \* SpecLogprob: one request, its prepared rows and scores
    single,              \* SpecSingleToken: one loglikelihood_single_token call
    generation,          \* SpecGenerationBatch: one batch of greedy_until
    criteria,            \* SpecStop: one generate call and its stopping criteria
    tokenization,        \* SpecAnswer: one build_tokenized_answer call
    preference,          \* SpecTokenizeRow: one tokenize_row call
    dpo                  \* SpecDpo: setup and one dpo_inference call

vars == <<requests, path, override_bs, accelerator, num_dataset_splits,
          max_length, capacity, proc, probe, scoring, single, generation, criteria,
          tokenization, preference, dpo>>

\* The variables of the specifications of one method or one function.
unitVars == <<probe, scoring, single, generation, criteria, tokenization, preference, dpo>>

runVars == <<requests, path, override_bs, accelerator, num_dataset_splits,
             max_length, capacity, proc>>

(***************************************************************************)
(* Bounds of the model.                                                    *)
(***************************************************************************)
MaxRequests == 3

\* What the inputs of a scoring call are drawn from: the combined lengths of
\* a request, the memory of a process (in cells of a forward pass), the
\* model's window, and self.accelerator (0: None, else the process count).
RequestLengths == {1, 2}
Capacities == {1, 4, 9}
ModelLengths == {2}
Accelerators == {0, 1, 2}

None == "None"
Idle == "idle"

\* An Optional[int] argument: NoInt is Python's None, Some(n) the integer n.
NoInt == <<>>
Some(n) == <<n>>
ValueOf(opt) == opt[1]

(***************************************************************************)
(* Python and arithmetic helpers.                                          *)
(***************************************************************************)
Min(a, b) == IF a <= b THEN a ELSE b
Max(a, b) == IF a >= b THEN a ELSE b
CeilDiv(a, b) == (a + b - 1) \div b

\* s[a:b] of Python for 0 <= a, 0 <= b (0-based, end exclusive, clipped).
Slice(s, a, b) ==
    LET lo == Min(a, Len(s))
        hi == Min(b, Len(s))
    IN  IF hi <= lo THEN <<>> ELSE SubSeq(s, lo + 1, hi)

\* s[-k:] of Python for k >= 0: the last k elements, and the WHOLE list for
\* k = 0 (since -0 == 0).
LastK(s, k) == IF k = 0 THEN s ELSE Slice(s, Max(Len(s) - k, 0), Len(s))

\* s[:-1] of Python.
DropLast(s) == Slice(s, 0, Max(Len(s) - 1, 0))

RECURSIVE Concat(_)
Concat(ss) == IF ss = <<>> THEN <<>> ELSE Head(ss) \o Concat(Tail(ss))

Range(s) == {s[i] : i \in DOMAIN s}

(***************************************************************************)
(* STARTING_BATCH_SIZE and the adaptive batch sizer.                       *)
(***************************************************************************)
STARTING_BATCH_SIZE == 512

\* forward_batch(batch_size): the synthetic input has batch_size plus 10% rows
\* of max_input_length columns; the pass fits or raises out-of-memory.
ForwardFits(batch_size, max_input_length, cap) ==
    (batch_size + (batch_size \div 10)) * max_input_length <= cap

\* What find_executable_batch_size does to the candidate after an
\* out-of-memory failure ("if OOM, then halves batch_size and tries again").
HalveStuck(batch_size) == batch_size
Halve(batch_size) == batch_size \div 2

\* The decorated forward_batch(): the first candidate, halving from the
\* starting size, whose forward pass fits; 0 when the candidate reached zero
\* (the decorator then raises RuntimeError).
RECURSIVE FindExecutableBatchSize(_, _, _)
FindExecutableBatchSize(batch_size, max_input_length, cap) ==
    IF batch_size = 0 THEN 0
    ELSE IF ForwardFits(batch_size, max_input_length, cap) THEN batch_size
    ELSE FindExecutableBatchSize(Halve(batch_size), max_input_length, cap)

\* `override_bs > 0`: Python raises TypeError when override_bs is None.
OverrideIsPositive(ov) ==
    IF ov = NoInt THEN "TypeError" ELSE IF ValueOf(ov) > 0 THEN "True" ELSE "False"

\* _get_batch_size as one call: [kind |-> "ok", bs |-> n] or the exception.
GetBatchSize(max_input_length, ov, starting_batch_size, cap) ==
    LET cmp == OverrideIsPositive(ov)
        found == FindExecutableBatchSize(starting_batch_size, max_input_length, cap)
    IN  IF cmp = "TypeError" THEN [kind |-> "TypeError", bs |-> 0]
        ELSE IF cmp = "True" THEN [kind |-> "ok", bs |-> ValueOf(ov)]
        ELSE IF found = 0 THEN [kind |-> "RuntimeError", bs |-> 0]
        ELSE [kind |-> "ok", bs |-> found]

(***************************************************************************)
(* The request dataset (lighteval.data: GenerativeTaskDataset,             *)
(* LoglikelihoodDataset, LoglikelihoodSingleTokenDataset, DefaultDataset). *)
(* Its code is not part of the files modelled here; it is modelled from    *)
(* section 4.1 of the specification: requests sorted by descending         *)
(* combined length, cut into contiguous groups of whole requests, and      *)
(* get_original_order as the inverse of the sort permutation.              *)
(***************************************************************************)
Paths == {"greedy_until", "loglikelihood", "loglikelihood_rolling",
          "loglikelihood_single_token", "greedy_until_multi_turn", "dpo_inference"}

\* The paths that probe a batch size per group and restore the order.
BatchedPaths == {"greedy_until", "loglikelihood", "loglikelihood_rolling",
                 "loglikelihood_single_token"}

N == Len(requests)

\* Request i is placed before request j by the sort (longest first; Python's
\* sort is stable). DefaultDataset keeps the caller's order.
SortsBefore(i, j) ==
    IF path = "dpo_inference" THEN i < j
    ELSE \/ requests[i].len > requests[j].len
         \/ requests[i].len = requests[j].len /\ i < j

\* original_order[k]: the caller's index of the k-th request of sorted_data.
original_order ==
    [k \in 1..N |->
        CHOOSE i \in 1..N : Cardinality({j \in 1..N : SortsBefore(j, i)}) = k - 1]

\* The number of groups: greedy_until_multi_turn asks for one, DefaultDataset
\* has no groups.
NumSplits ==
    IF path \in BatchedPaths THEN num_dataset_splits ELSE 1

\* Group k (1-based) holds sorted positions split_start+1 .. split_end.
split_start(k) == ((k - 1) * N) \div NumSplits
split_end(k) == (k * N) \div NumSplits

\* get_original_order(new_arr): new_arr[k] goes to slot original_order[k];
\* a slot nothing went to holds 0.
GetOriginalOrder(new_arr) ==
    [i \in 1..N |->
        LET ks == {k \in 1..Min(Len(new_arr), N) : original_order[k] = i}
        IN  IF ks = {} THEN 0 ELSE new_arr[CHOOSE k \in ks : TRUE]]

(***************************************************************************)
(* DataLoader, accelerator.prepare(dataloader) and the collectives of      *)
(* accelerate, as the scoring loops use them.                              *)
(***************************************************************************)
NumProcesses == IF accelerator = 0 THEN 1 ELSE accelerator
Procs == 1..NumProcesses

\* A prepared dataloader is sharded only when several processes run.
Sharded == accelerator >= 2

\* Number of batches one process iterates over a group of n requests with
\* its own batch size b.
NumSteps(n, b) ==
    IF Sharded THEN CeilDiv(CeilDiv(n, b), NumProcesses) ELSE CeilDiv(n, b)

\* The i-th (0-based) index of the sharded sampler's stream over a group of
\* n requests: the group, then (even_batches) indices cycled from the
\* first num_processes batches until every process has a full batch.
ShardIndex(i, n, b) ==
    IF i < n THEN i ELSE (i - n) % Min(n, NumProcesses * b)

\* The batch process p gets at step s (0-based): 0-based indices into the
\* group. Unsharded, the last batch is short; sharded, every batch is full
\* and process p takes batches p-1, p-1+P, ...
LoaderBatch(p, s, n, b) ==
    IF Sharded
    THEN [k \in 1..b |-> ShardIndex((s * NumProcesses + (p - 1)) * b + (k - 1), n, b)]
    ELSE [k \in 1..(Min(n, (s + 1) * b) - s * b) |-> s * b + (k - 1)]

\* accelerator.gather_for_metrics(data): the gathered rows, cut to the
\* dataset's remainder on the last batch of the dataloader.
GatherNoDrop(data, end_of_dataloader, remainder) == data
GatherForMetrics(data, end_of_dataloader, remainder) ==
    IF end_of_dataloader /\ remainder > 0
    THEN Slice(data, 0, remainder)
    ELSE data

\* pad_and_gather(tensor): a gather of the trailing lengths, then the gather
\* of the padded tensor (gather_for_metrics unless drop_last_samples=False).
\* A collective is named by the tensor it moves and its number of rows.
PadAndGather(tensor, rows, drop_last_samples) ==
    << [op |-> "gather", tensor |-> tensor, part |-> "length", rows |-> rows],
       [op |-> IF drop_last_samples THEN "gather_for_metrics" ELSE "gather",
        tensor |-> tensor, part |-> "data", rows |-> rows] >>

Metric(tensor, rows) ==
    << [op |-> "gather_for_metrics", tensor |-> tensor, part |-> "data", rows |-> rows] >>

\* The collectives one iteration of the batch loop issues, in order.
\* returns_logits is batch[0].use_logits of the process's own batch.
BarrierSeq(rows, returns_logits) ==
    IF accelerator = 0 THEN <<>>
    ELSE CASE path = "greedy_until" ->
                PadAndGather("generations", rows, TRUE)
                \o PadAndGather("input_ids", rows, TRUE)
                \o (IF returns_logits THEN PadAndGather("logits", rows, TRUE) ELSE <<>>)
                \o Metric("truncated", rows) \o Metric("padded", rows)
           [] path \in {"loglikelihood", "loglikelihood_rolling"} ->
                PadAndGather("input_ids", rows, TRUE)
                \o PadAndGather("batch_cont_tokens", rows, TRUE)
                \o Metric("logits", rows) \o Metric("max_equal", rows)
                \o Metric("truncated", rows) \o Metric("padded", rows)
           [] path = "loglikelihood_single_token" ->
                PadAndGather("input_ids", rows, TRUE)
                \o PadAndGather("batch_probs", rows, TRUE)
                \o PadAndGather("batch_cont_tokens", rows, TRUE)
                \o Metric("truncated", rows) \o Metric("padded", rows)
           [] path = "greedy_until_multi_turn" ->
                PadAndGather("model_generations", rows, FALSE)
           [] OTHER -> <<>>

(***************************************************************************)
(* The scoring call, as every process runs it.                             *)
(***************************************************************************)
\* _loglikelihood_tokens' max_context_continuation_size_allowed for a group
\* whose first request has len(context_enc + continuation_enc) = head_len:
\* all of it in rolling mode, else len(x[-(max_length + 1):][:-1]).
LoglikelihoodMaxContext(head_len, rolling, window) ==
    IF rolling THEN head_len
    ELSE Max(Min(head_len, window + 1) - 1, 0)

\* max_context_continuation_size_allowed / max_context of a group whose
\* first (longest) request has combined length head_len.
MaxInputLength(head_len) ==
    CASE path = "loglikelihood" -> LoglikelihoodMaxContext(head_len, FALSE, max_length)
      [] path = "loglikelihood_rolling" -> LoglikelihoodMaxContext(head_len, TRUE, max_length)
      [] OTHER -> Min(head_len, max_length)

\* The starting_batch_size argument of the group's _get_batch_size call:
\* _loglikelihood_single_token passes none, so the default applies.
StartingBatchSizeArg(local_starting_batch_size) ==
    IF path = "loglikelihood_single_token" THEN STARTING_BATCH_SIZE
    ELSE local_starting_batch_size

\* The batch size a process uses for a group, or the exception raised while
\* finding it. greedy_until_multi_turn fixes it to 1, dpo_inference takes
\* the override or 1 (DataLoader rejects a batch size below 1).
GroupBatchSize(head_len, local_starting_batch_size, cap) ==
    CASE path = "greedy_until_multi_turn" -> [kind |-> "ok", bs |-> 1]
      [] path = "dpo_inference" ->
            IF override_bs = NoInt THEN [kind |-> "ok", bs |-> 1]
            ELSE IF ValueOf(override_bs) <= 0 THEN [kind |-> "ValueError", bs |-> 0]
            ELSE [kind |-> "ok", bs |-> ValueOf(override_bs)]
      [] OTHER ->
            GetBatchSize(MaxInputLength(head_len), override_bs,
                         StartingBatchSizeArg(local_starting_batch_size), cap)

\* The rows a process appends to its result list after a batch: what it
\* zips over. dpo_inference gathers nothing; greedy_until_multi_turn
\* gathers without dropping; the others drop the duplicated last samples.
BatchRows(local, gathered, end_of_dataloader, remainder) ==
    CASE path = "dpo_inference" -> local
      [] accelerator = 0 -> local
      [] path = "greedy_until_multi_turn" -> gathered
      [] OTHER -> GatherForMetrics(gathered, end_of_dataloader, remainder)

\* The value the call returns from its result list.
ReturnUnordered(res) == res
ReturnValue(res) ==
    IF path \in BatchedPaths THEN GetOriginalOrder(res) ELSE res

\* A response is identified by the caller's index of the request it answers:
\* sorted position pos (1-based) holds request original_order[pos].
Responses(positions) == [k \in 1..Len(positions) |-> original_order[positions[k]]]

InitProc ==
    [pc |-> "split", split |-> 1, batch_size |-> 0,
     starting_batch_size |-> STARTING_BATCH_SIZE, step |-> 0,
     local |-> <<>>, pend |-> <<>>, gathered |-> <<>>, res |-> <<>>,
     ret |-> <<>>, error |-> None, sizes |-> <<>>]

Overrides == {NoInt, Some(0), Some(2)}

RequestShapes ==
    [len : RequestLengths, use_logits : BOOLEAN]

InitRun ==
    /\ path \in Paths
    /\ requests \in UNION {[1..n -> RequestShapes] : n \in 1..MaxRequests}
    /\ \A i \in 1..N : requests[i].use_logits => path = "greedy_until"
    /\ \A i, j \in 1..N : requests[i].use_logits /\ requests[j].use_logits => i = j
    /\ override_bs \in Overrides
    /\ accelerator \in Accelerators
    /\ num_dataset_splits \in 1..Min(N, 2)
    /\ max_length \in ModelLengths
    /\ capacity \in [Procs -> Capacities]
    /\ proc = [p \in Procs |-> InitProc]

IdleRun ==
    /\ path = Idle
    /\ requests = <<>>
    /\ override_bs = NoInt
    /\ accelerator = 0
    /\ num_dataset_splits = 1
    /\ max_length = 0
    /\ capacity = <<>>
    /\ proc = <<>>

\* `for split_start, split_end in dataset.splits_start_end_iterator()`: the
\* head of the loop for the next group, up to the dataloader's creation.
BeginSplit(p) ==
    LET me == proc[p]
        head == requests[original_order[split_start(me.split) + 1]]
        got == GroupBatchSize(head.len, me.starting_batch_size, capacity[p])
    IN  /\ me.pc = "split"
        /\ me.split <= NumSplits
        /\ proc' = [proc EXCEPT ![p] =
              IF got.kind # "ok"
              THEN [me EXCEPT !.pc = "raised", !.error = got.kind]
              ELSE [me EXCEPT !.pc = "batch", !.batch_size = got.bs,
                              !.starting_batch_size =
                                  IF path \in {"greedy_until", "loglikelihood",
                                               "loglikelihood_rolling"}
                                  THEN got.bs * 2 ELSE @,
                              !.step = 0,
                              !.sizes = Append(@, got.bs)]]
        /\ UNCHANGED <<requests, path, override_bs, accelerator,
                       num_dataset_splits, max_length, capacity, unitVars>>

\* `for batch in dataloader`: the next batch is taken and scored locally, up
\* to the first collective; or the dataloader is exhausted and the group ends.
\* greedy_until_multi_turn without an accelerator reads `lengths`, which only
\* the accelerator branch assigns: NameError.
NextBatch(p) ==
    LET me == proc[p]
        start == split_start(me.split)
        n == split_end(me.split) - start
        batch == LoaderBatch(p, me.step, n, me.batch_size)
        positions == [k \in 1..Len(batch) |-> start + batch[k] + 1]
        returns_logits == requests[original_order[positions[1]]].use_logits
    IN  /\ me.pc = "batch"
        /\ proc' = [proc EXCEPT ![p] =
              IF me.step >= NumSteps(n, me.batch_size)
              THEN [me EXCEPT !.pc = "split", !.split = @ + 1]
              ELSE IF path = "greedy_until_multi_turn" /\ accelerator = 0
              THEN [me EXCEPT !.pc = "raised", !.error = "NameError"]
              ELSE [me EXCEPT !.pc = "sync", !.local = positions,
                              !.gathered = positions,
                              !.pend = BarrierSeq(Len(positions), returns_logits)]]
        /\ UNCHANGED <<requests, path, override_bs, accelerator,
                       num_dataset_splits, max_length, capacity, unitVars>>

\* A collective completes when every process has issued the same one (the
\* same call, on tensors of the same number of rows); every process then
\* holds the rows of all processes, in rank order.
CollectiveReady ==
    /\ \A q \in Procs : proc[q].pc = "sync" /\ proc[q].pend # <<>>
    /\ \A q \in Procs : Head(proc[q].pend) = Head(proc[1].pend)

Collective ==
    /\ path # Idle
    /\ CollectiveReady
    /\ proc' = [q \in Procs |->
                  [proc[q] EXCEPT !.pend = Tail(@),
                                  !.gathered = Concat([r \in Procs |-> proc[r].local])]]
    /\ UNCHANGED <<requests, path, override_bs, accelerator,
                   num_dataset_splits, max_length, capacity, unitVars>>

\* The end of the loop body: one response per row of the zipped tensors is
\* appended to the result list.
FinishBatch(p) ==
    LET me == proc[p]
        n == split_end(me.split) - split_start(me.split)
        end_of_dataloader == me.step + 1 = NumSteps(n, me.batch_size)
        remainder == n % (me.batch_size * NumProcesses)
        rows == BatchRows(me.local, me.gathered, end_of_dataloader, remainder)
    IN  /\ me.pc = "sync"
        /\ me.pend = <<>>
        /\ proc' = [proc EXCEPT ![p] =
              [me EXCEPT !.pc = "batch", !.step = @ + 1,
                         !.res = @ \o Responses(rows)]]
        /\ UNCHANGED <<requests, path, override_bs, accelerator,
                       num_dataset_splits, max_length, capacity, unitVars>>

\* `return dataset.get_original_order(res)` / `return results` / `return res`.
Return(p) ==
    LET me == proc[p]
    IN  /\ me.pc = "split"
        /\ me.split > NumSplits
        /\ proc' = [proc EXCEPT ![p] =
              [me EXCEPT !.pc = "returned", !.ret = ReturnValue(me.res)]]
        /\ UNCHANGED <<requests, path, override_bs, accelerator,
                       num_dataset_splits, max_length, capacity, unitVars>>

IdleProbe == [pc |-> Idle]
IdleScoring == [pc |-> Idle]
IdleSingle == [pc |-> Idle]
IdleGeneration == [pc |-> Idle]
IdleCriteria == [pc |-> Idle]
IdleTokenization == [pc |-> Idle]
IdlePreference == [pc |-> Idle]
IdleDpo == [pc |-> Idle]

\* Every unit but u is idle, and stays so.
UnitsIdleExcept(u) ==
    /\ IF u = "probe" THEN TRUE ELSE probe = IdleProbe
    /\ IF u = "scoring" THEN TRUE ELSE scoring = IdleScoring
    /\ IF u = "single" THEN TRUE ELSE single = IdleSingle
    /\ IF u = "generation" THEN TRUE ELSE generation = IdleGeneration
    /\ IF u = "criteria" THEN TRUE ELSE criteria = IdleCriteria
    /\ IF u = "tokenization" THEN TRUE ELSE tokenization = IdleTokenization
    /\ IF u = "preference" THEN TRUE ELSE preference = IdlePreference
    /\ IF u = "dpo" THEN TRUE ELSE dpo = IdleDpo

UnitsUnchangedExcept(u) ==
    /\ IF u = "probe" THEN TRUE ELSE UNCHANGED probe
    /\ IF u = "scoring" THEN TRUE ELSE UNCHANGED scoring
    /\ IF u = "single" THEN TRUE ELSE UNCHANGED single
    /\ IF u = "generation" THEN TRUE ELSE UNCHANGED generation
    /\ IF u = "criteria" THEN TRUE ELSE UNCHANGED criteria
    /\ IF u = "tokenization" THEN TRUE ELSE UNCHANGED tokenization
    /\ IF u = "preference" THEN TRUE ELSE UNCHANGED preference
    /\ IF u = "dpo" THEN TRUE ELSE UNCHANGED dpo

Init ==
    /\ InitRun
    /\ UnitsIdleExcept("run")

Next ==
    \/ \E p \in Procs : BeginSplit(p)
    \/ \E p \in Procs : NextBatch(p)
    \/ Collective
    \/ \E p \in Procs : FinishBatch(p)
    \/ \E p \in Procs : Return(p)

Spec == Init /\ [][Next]_vars

(***************************************************************************)
(* Claims about a whole scoring call (specification Spec).                 *)
(***************************************************************************)
Identity == [i \in 1..N |-> i]

Returned(p) == proc[p].pc = "returned"

\* C1: whatever the sort order, the number of groups and the batch sizes,
\* the i-th response of the list returned by greedy_until,
\* _loglikelihood_tokens (loglikelihood and loglikelihood_rolling) and
\* _loglikelihood_single_token answers the i-th request of the caller's list.
C1_OrderPreserved ==
    \A p \in Procs :
        Returned(p) /\ path \in BatchedPaths =>
            \A i \in 1..Len(proc[p].ret) : proc[p].ret[i] = i

\* C1's case: a call returned although the dataset had reordered the requests
\* and cut them into two groups.
C1_Witness ==
    \E p \in Procs :
        /\ Returned(p) /\ path \in BatchedPaths
        /\ original_order # Identity
        /\ num_dataset_splits = 2
        /\ proc[p].res # proc[p].ret

\* C2: whatever batch size the sizer settled on for each group, the returned
\* list has one response per submitted request: its length is N and every
\* request is answered exactly once.
C2_OneResponsePerRequest ==
    \A p \in Procs :
        Returned(p) /\ path \in BatchedPaths =>
            /\ Len(proc[p].ret) = N
            /\ \A r \in 1..N :
                  Cardinality({i \in 1..Len(proc[p].ret) : proc[p].ret[i] = r}) = 1

\* C2's case: two processes returned after probing a different batch size
\* for each of two groups, the first one found by halving, with a last
\* batch that the sharded dataloader had to complete.
C2_Witness ==
    \E p \in Procs :
        /\ Returned(p) /\ path \in BatchedPaths
        /\ accelerator = 2
        /\ override_bs = Some(0)
        /\ Len(proc[p].sizes) = 2
        /\ proc[p].sizes[1] # proc[p].sizes[2]
        /\ proc[p].sizes[1] < STARTING_BATCH_SIZE
        /\ N % (proc[p].sizes[2] * NumProcesses) # 0

\* C3 (as claimed): greedy_until_multi_turn returns one response per request
\* in the caller's order, with no accelerator and with several processes.
C3_MultiTurnInCallerOrder ==
    path = "greedy_until_multi_turn" =>
        \A p \in Procs :
            /\ proc[p].pc # "raised"
            /\ Returned(p) => proc[p].ret = Identity

\* C4 (as claimed): dpo_inference returns one response per request in input
\* order, the same list with one process and with several.
C4_DpoSameForAnyProcessCount ==
    path = "dpo_inference" =>
        \A p \in Procs : Returned(p) => proc[p].ret = Identity

\* A process waits at a collective that can never complete: every process is
\* either waiting at a collective or has left the call, and the collectives
\* waited at are not one and the same.
Waiting(q) == proc[q].pc = "sync" /\ proc[q].pend # <<>>

Stalled ==
    /\ \E q \in Procs : Waiting(q)
    /\ \A q \in Procs : Waiting(q) \/ proc[q].pc \in {"returned", "raised"}
    /\ ~CollectiveReady

\* C5 (as claimed): in a multi-process run in which every process found a
\* batch size, no process waits forever at a collective another process
\* never reaches.
C5_NoProcessWaitsForever ==
    (/\ path \in BatchedPaths
     /\ accelerator >= 2
     /\ \A p \in Procs : proc[p].pc # "raised") => ~Stalled

(***************************************************************************)
(* One call of _get_batch_size, probe by probe (specification SpecProbe).  *)
(***************************************************************************)
MaxStartingSize == 12
MaxCapacity == 8
MaxProbeColumns == 3

\* The starting sizes of a call: the default, and the small ones a caller
\* passes after a small batch size (twice the size of the group before).
StartingSizes == (1..MaxStartingSize) \cup {STARTING_BATCH_SIZE}

ProbeOverrides == {NoInt, Some(-1), Some(0), Some(1), Some(3)}

InitProbe ==
    /\ probe \in [pc : {"call"},
                  override_bs : ProbeOverrides,
                  starting_batch_size : StartingSizes,
                  max_input_length : 0..MaxProbeColumns,
                  cap : 0..MaxCapacity,
                  batch_size : {0},
                  tried : {<<>>},
                  result : {0},
                  error : {None}]
    /\ IdleRun
    /\ UnitsIdleExcept("probe")

\* `if override_bs > 0: return override_bs`, else the decorated function is
\* built with its starting size.
ProbeEnter ==
    LET cmp == OverrideIsPositive(probe.override_bs)
    IN  /\ probe.pc = "call"
        /\ probe' =
              IF cmp = "TypeError"
              THEN [probe EXCEPT !.pc = "raised", !.error = "TypeError"]
              ELSE IF cmp = "True"
              THEN [probe EXCEPT !.pc = "returned", !.result = ValueOf(probe.override_bs)]
              ELSE [probe EXCEPT !.pc = "probing",
                                 !.batch_size = probe.starting_batch_size]
        /\ UNCHANGED runVars
        /\ UnitsUnchangedExcept("probe")

\* One turn of find_executable_batch_size's loop: a candidate of zero raises;
\* otherwise forward_batch runs on the candidate and returns it, or fails
\* with out-of-memory and the candidate is halved.
ProbeStep ==
    /\ probe.pc = "probing"
    /\ probe' =
          IF probe.batch_size = 0
          THEN [probe EXCEPT !.pc = "raised", !.error = "RuntimeError"]
          ELSE IF ForwardFits(probe.batch_size, probe.max_input_length, probe.cap)
          THEN [probe EXCEPT !.pc = "returned", !.result = probe.batch_size,
                             !.tried = Append(@, probe.batch_size)]
          ELSE [probe EXCEPT !.batch_size = Halve(@),
                             !.tried = Append(@, probe.batch_size)]
    /\ UNCHANGED runVars
    /\ UnitsUnchangedExcept("probe")

NextProbe == ProbeEnter \/ ProbeStep

\* A call that is running keeps running: the loop is synchronous code.
SpecProbe == InitProbe /\ [][NextProbe]_vars /\ WF_vars(NextProbe)

(***************************************************************************)
(* Claims about _get_batch_size (specification SpecProbe).                 *)
(***************************************************************************)
ProbeEnded == probe.pc \in {"returned", "raised"}

\* What the probe has done so far is a halving search: every size tried is
\* at least 1, each is half the one before, and every one but the last
\* failed.
ProbeHalves ==
    LET t == probe.tried
    IN  /\ \A i \in 1..Len(t) : t[i] >= 1
        /\ \A i \in 1..(Len(t) - 1) :
              /\ t[i + 1] = t[i] \div 2
              /\ ~ForwardFits(t[i], probe.max_input_length, probe.cap)

\* The probe's end: a size of at least 1 whose own forward pass succeeded,
\* or an error after the forward pass at size 1 failed.
ProbeEndsRight ==
    LET t == probe.tried
    IN  /\ (probe.pc = "returned" /\ t # <<>>) =>
              /\ probe.result >= 1
              /\ probe.result = t[Len(t)]
              /\ ForwardFits(probe.result, probe.max_input_length, probe.cap)
        /\ (probe.pc = "raised" /\ probe.error = "RuntimeError") =>
              /\ t # <<>>
              /\ t[Len(t)] = 1
              /\ ~ForwardFits(1, probe.max_input_length, probe.cap)

\* C6: the probe terminates for every starting size and capacity; each
\* out-of-memory failure halves the candidate; it ends by returning a size
\* >= 1 whose own probe succeeded, or by an error after size 1 failed; it
\* never tries a size below 1.
C6_ProbeTerminates ==
    /\ [](ProbeHalves /\ ProbeEndsRight)
    /\ <>ProbeEnded

\* C6's case: a probe that failed at least twice, down to size 1, and ended.
C6_Witness ==
    /\ ProbeEnded
    /\ Len(probe.tried) >= 3
    /\ probe.tried[Len(probe.tried)] = 1
    /\ probe.starting_batch_size = STARTING_BATCH_SIZE \/ probe.pc = "raised"

\* C7 (as claimed): a positive override is returned unchanged without any
\* probe; with no override (None) or a non-positive one the call goes on to
\* memory probing, so it ends with a probed size (or the probe's own error).
C7_OverrideHonoured ==
    /\ (probe.pc # Idle /\ probe.override_bs # NoInt /\ ValueOf(probe.override_bs) > 0) =>
          /\ probe.tried = <<>>
          /\ probe.pc = "returned" => probe.result = ValueOf(probe.override_bs)
    /\ (probe.pc # Idle /\ (probe.override_bs = NoInt \/ ValueOf(probe.override_bs) <= 0)) =>
          /\ probe.error # "TypeError"
          /\ ProbeEnded => probe.tried # <<>>

(***************************************************************************)
(* prepare_batch_logprob and the score extraction of _loglikelihood_tokens *)
(* (specification SpecLogprob): one request, scored as a member of groups  *)
(* of different widths.                                                    *)
(***************************************************************************)
MaxContext == 2
MaxContinuation == 2

Vocab == {0, 1}
pad_token_id == 0

\* self._max_length of the runs explored.
Windows == {1, 2, 5}

SeqsUpTo(S, lo, hi) == UNION {[1..n -> S] : n \in lo..hi}

\* The longest len(context + continuation) of a group head.
MaxHeadLength == MaxContext + MaxContinuation + 1

Repeat(x, n) == [k \in 1..n |-> x]

\* `(orig_tokens)[-max_context:]`: the tokens kept by the left truncation.
LeftTruncate(orig_tokens, max_context) == LastK(orig_tokens, max_context)

\* One turn of prepare_batch_logprob's loop over the inputs, on a call whose
\* padding_length is given: the row, or ok = FALSE for
\* ValueError("Negative padding"), with what the turn had computed when it
\* raised (the count of truncated tokens and the tokens kept).
PrepareRow(orig_tokens, padding_length, max_context) ==
    LET tokens == LeftTruncate(orig_tokens, max_context)
        sequence_len == Len(tokens)
        input_ids == tokens \o Repeat(pad_token_id, padding_length - sequence_len)
    IN  IF padding_length - sequence_len < 0
        THEN [ok |-> FALSE, input_ids |-> tokens, input_mask |-> <<>>,
              input_length |-> sequence_len,
              truncated |-> Max(Len(orig_tokens) - max_context, 0),
              padded |-> 0]
        ELSE [ok |-> TRUE,
              input_ids |-> input_ids,
              input_mask |-> [k \in 1..Len(input_ids) |-> input_ids[k] = pad_token_id],
              input_length |-> sequence_len,
              truncated |-> Max(Len(orig_tokens) - max_context, 0),
              padded |-> padding_length - sequence_len]

\* The model input if the last token of the continuation were given too.
LogprobInputWithLast(request) ==
    request.tokenized_context \o request.tokenized_continuation

\* The model input of a request in log-likelihood mode: the last token of the
\* continuation is not given to the model.
LogprobInput(request) ==
    request.tokenized_context \o DropLast(request.tokenized_continuation)

\* prepare_batch_logprob(batch, padding_length, max_context): the Batch, or
\* ok = FALSE when a row raised.
PrepareBatchLogprob(batch, padding_length, max_context) ==
    LET rows == [i \in 1..Len(batch) |->
                    PrepareRow(LogprobInput(batch[i]), padding_length, max_context)]
    IN  [ok |-> \A i \in 1..Len(batch) : rows[i].ok,
         input_ids |-> [i \in 1..Len(batch) |-> rows[i].input_ids],
         input_mask |-> [i \in 1..Len(batch) |-> rows[i].input_mask],
         input_lengths |-> [i \in 1..Len(batch) |-> rows[i].input_length],
         truncated |-> [i \in 1..Len(batch) |-> rows[i].truncated],
         padded |-> [i \in 1..Len(batch) |-> rows[i].padded]]

\* The logit rows (0-based positions of the padded input) the score of a
\* request is read from: all num_columns of them when the continuation is
\* longer than the input, else the contlen rows that end the real input.
SlicePadded(inplen, contlen, num_columns) ==
    IF contlen > num_columns
    THEN [k \in 1..num_columns |-> k - 1]
    ELSE [k \in 1..contlen |-> num_columns - contlen + k - 1]
ScoredLogitRows(inplen, contlen, num_columns) ==
    IF contlen > inplen
    THEN [k \in 1..num_columns |-> k - 1]
    ELSE [k \in 1..contlen |-> inplen - contlen + k - 1]

\* cont_toks as scored: cut to the input length when longer than the input.
ScoredContToks(cont, inplen) ==
    IF Len(cont) > inplen THEN Slice(cont, 0, inplen) ELSE cont

\* `(greedy_tokens == cont_toks).all()` on tensors of shapes [1, a], [1, b]:
\* elementwise with broadcasting; "RuntimeError" when a # b and neither is 1.
AnyEqual(greedy_tokens, cont_toks) ==
    LET a == Len(greedy_tokens)
        b == Len(cont_toks)
    IN  IF a = b THEN (IF \E k \in 1..a : greedy_tokens[k] = cont_toks[k] THEN "True" ELSE "False")
        ELSE "RuntimeError"
AllEqual(greedy_tokens, cont_toks) ==
    LET a == Len(greedy_tokens)
        b == Len(cont_toks)
    IN  IF a = b
        THEN (IF \A k \in 1..a : greedy_tokens[k] = cont_toks[k] THEN "True" ELSE "False")
        ELSE IF a = 1
        THEN (IF \A k \in 1..b : greedy_tokens[1] = cont_toks[k] THEN "True" ELSE "False")
        ELSE IF b = 1
        THEN (IF \A k \in 1..a : greedy_tokens[k] = cont_toks[1] THEN "True" ELSE "False")
        ELSE "RuntimeError"

\* The loop body of _loglikelihood_tokens for one row: greedy_tokens is the
\* argmax of each logit row read. The score sums the log-probability of
\* cont_toks[k] at the k-th logit row read, for every k of cont_toks
\* (torch.gather needs at least as many logit rows as tokens).
ScoreRow(cont, inplen, num_columns, greedy_tokens) ==
    LET logit_rows == ScoredLogitRows(inplen, Len(cont), num_columns)
        cont_toks == ScoredContToks(cont, inplen)
        max_equal == AllEqual(greedy_tokens, cont_toks)
    IN  IF max_equal = "RuntimeError" \/ Len(cont_toks) > Len(logit_rows)
        THEN [ok |-> FALSE, summed |-> {}, argmax |-> {}, max_equal |-> FALSE]
        ELSE [ok |-> TRUE,
              summed |-> {<<logit_rows[k], cont_toks[k]>> : k \in 1..Len(cont_toks)},
              argmax |-> {<<logit_rows[k], greedy_tokens[k]>> : k \in 1..Len(logit_rows)},
              max_equal |-> (max_equal = "True")]

InitLogprob ==
    /\ scoring \in [pc : {"group"},
                    tokenized_context : SeqsUpTo(Vocab, 1, MaxContext),
                    tokenized_continuation : SeqsUpTo(Vocab, 0, MaxContinuation),
                    rolling : BOOLEAN,
                    max_length : Windows,
                    width : {0},
                    batch : {<<>>},
                    score : {<<>>},
                    first : {<<>>}]
    /\ IdleRun
    /\ UnitsIdleExcept("scoring")

ScoringRequest ==
    [tokenized_context |-> scoring.tokenized_context,
     tokenized_continuation |-> scoring.tokenized_continuation]

\* The request is a member of a group whose first request has combined
\* length head_len (at least its own, the group being sorted longest
\* first): the group's width is computed and the batch prepared, both
\* padding_length and max_context being that width.
PrepareBatch(head_len) ==
    LET width == LoglikelihoodMaxContext(head_len, scoring.rolling, scoring.max_length)
        batch == PrepareBatchLogprob(<<ScoringRequest>>, width, width)
    IN  /\ scoring.pc = "group"
        /\ head_len >= Len(scoring.tokenized_context) + Len(scoring.tokenized_continuation)
        /\ scoring' = [scoring EXCEPT
                          !.pc = IF batch.ok THEN "prepared" ELSE "raised",
                          !.width = width,
                          !.batch = <<batch>>]
        /\ UNCHANGED runVars
        /\ UnitsUnchangedExcept("scoring")

\* The forward pass and the score extraction of the prepared row.
Score(greedy_tokens) ==
    LET batch == scoring.batch[1]
        cont == scoring.tokenized_continuation
        got == ScoreRow(cont, batch.input_lengths[1], Len(batch.input_ids[1]), greedy_tokens)
    IN  /\ scoring.pc = "prepared"
        /\ Len(greedy_tokens) =
              Len(ScoredLogitRows(batch.input_lengths[1], Len(cont), Len(batch.input_ids[1])))
        /\ scoring' = [scoring EXCEPT
                          !.pc = IF got.ok THEN "scored" ELSE "raised",
                          !.score = <<got>>]
        /\ UNCHANGED runVars
        /\ UnitsUnchangedExcept("scoring")

\* The same request is evaluated again, in another group: the first score is
\* kept for comparison.
NextGroup ==
    /\ scoring.pc = "scored"
    /\ scoring' = [scoring EXCEPT
                      !.pc = "group",
                      !.first = IF @ = <<>>
                                THEN <<[width |-> scoring.width,
                                        input_length |-> scoring.batch[1].input_lengths[1],
                                        summed |-> scoring.score[1].summed]>>
                                ELSE @,
                      !.batch = <<>>,
                      !.score = <<>>,
                      !.width = 0]
    /\ UNCHANGED runVars
    /\ UnitsUnchangedExcept("scoring")

NextLogprob ==
    \/ \E head_len \in 1..MaxHeadLength : PrepareBatch(head_len)
    \/ \E greedy_tokens \in SeqsUpTo(Vocab, 0, MaxHeadLength) : Score(greedy_tokens)
    \/ NextGroup

SpecLogprob == InitLogprob /\ [][NextLogprob]_vars

(***************************************************************************)
(* Claims on the preparation and the scoring of a log-likelihood row.      *)
(***************************************************************************)
Prepared == scoring.pc # Idle /\ scoring.batch # <<>>

Scored == scoring.pc = "scored"

\* C8: in every row prepare_batch_logprob builds in log-likelihood mode, for
\* every max_context >= 0 computed for a group, the tokens kept are the last
\* min(len, max_context) tokens of tokenized_context +
\* tokenized_continuation[:-1], truncated is the number of tokens dropped
\* from the front, and truncated + input_length is the untruncated length.
C8_LeftTruncationAccounting ==
    Prepared =>
        LET orig == LogprobInput(ScoringRequest)
            kept == Min(Len(orig), scoring.width)
            batch == scoring.batch[1]
        IN  /\ batch.input_lengths[1] = kept
            /\ \A k \in 1..kept :
                  batch.input_ids[1][k] = orig[Len(orig) - kept + k]
            /\ batch.truncated[1] = Len(orig) - kept
            /\ batch.truncated[1] + batch.input_lengths[1] = Len(orig)

\* C9: the (logit position, continuation token) pairs summed for a request
\* are the same under two different column widths that are both at least
\* the row's real length; the positions are those given by the input length
\* and the continuation length alone, and no pad position is scored.
C9_PaddingNeutral ==
    Scored =>
        LET real == Len(LogprobInput(ScoringRequest))
            cont == scoring.tokenized_continuation
            inplen == scoring.batch[1].input_lengths[1]
            summed == scoring.score[1].summed
        IN  /\ \A pair \in summed : pair[1] < inplen
            /\ scoring.width >= real =>
                  summed = {<<inplen - Len(cont) + k - 1, cont[k]>> : k \in 1..Len(cont)}
            /\ (/\ scoring.first # <<>>
                /\ scoring.width >= real
                /\ scoring.first[1].width >= real
                /\ scoring.first[1].width # scoring.width)
               => /\ summed = scoring.first[1].summed
                  /\ inplen = scoring.first[1].input_length

C9_Witness ==
    /\ Scored
    /\ scoring.first # <<>>
    /\ scoring.first[1].width < scoring.width
    /\ scoring.first[1].width >= Len(LogprobInput(ScoringRequest))
    /\ scoring.batch[1].padded[1] > 0
    /\ Cardinality(scoring.score[1].summed) >= 2

\* The scored positions at which the model's argmax is not the continuation
\* token scored there.
Mismatches == scoring.score[1].summed \ scoring.score[1].argmax

\* C10: the greedy-match flag is true if and only if at every scored
\* position the argmax token is the continuation token scored there; a
\* single scored token that is not the argmax makes the flag false.
C10_GreedyMatchIffArgmax ==
    Scored => (scoring.score[1].max_equal <=> Mismatches = {})

C10_Witness ==
    /\ Scored
    /\ Cardinality(scoring.score[1].summed) >= 2
    /\ Cardinality(Mismatches) = 1
    /\ ~scoring.score[1].max_equal

\* C11 (as claimed): when the continuation is longer than the (truncated)
\* input row, exactly the first inplen continuation tokens are scored, each
\* with the logit row of the input position that holds the token just before
\* it in context + continuation[:-1].
C11_VisiblePrefixAligned ==
    (Scored /\ Len(scoring.tokenized_continuation) > scoring.batch[1].input_lengths[1]) =>
        LET cont == scoring.tokenized_continuation
            inplen == scoring.batch[1].input_lengths[1]
            truncated == scoring.batch[1].truncated[1]
            \* 0-based row of the token that precedes cont[k] in the input
            before(k) == Len(scoring.tokenized_context) + k - 1 - truncated - 1
        IN  /\ Cardinality(scoring.score[1].summed) = inplen
            /\ scoring.score[1].summed = {<<before(k), cont[k]>> : k \in 1..inplen}

(***************************************************************************)
(* loglikelihood_single_token (specification SpecSingleToken): one call    *)
(* whose requests fill one batch per process.                              *)
(***************************************************************************)
MaxBatchRows == 2

SENTINEL == -65504

\* The encodings of the choices of a request: one token each, or a choice of
\* several tokens, or a choice of no token (the empty string).
ChoiceLists ==
    { << <<1>> >>, << <<1>>, <<2>> >>, << <<2>>, <<1>>, <<0>> >>,
      << <<1>>, <<0, 2>> >>, << <<>>, <<1>> >> }

SingleContexts == {<<1>>, <<1, 2>>}

SingleWindows == {1, 2}

SingleRequests ==
    [tokenized_context : SingleContexts, tokenized_continuation : ChoiceLists]

\* A log-probability read from the distribution at logit row pos (0-based)
\* for token tok: a negative number that names the two.
LogProb(pos, tok) == 0 - (1 + 3 * pos + tok)

MaxOf(S) == CHOOSE x \in S : \A y \in S : y <= x

\* `any(len(c) > 1 for c in continuations_enc)` over the requests.
AnyChoiceLong(reqs) ==
    \E i \in 1..Len(reqs) :
        \E k \in 1..Len(reqs[i].tokenized_continuation) :
            Len(reqs[i].tokenized_continuation[k]) > 1

\* torch.tensor(tokenized_continuation).squeeze(-1) followed by
\* torch.gather(logits, 0, cont_toks) works on a list of one-token lists.
ContToksTensorOk(request) ==
    \A k \in 1..Len(request.tokenized_continuation) :
        Len(request.tokenized_continuation[k]) = 1

ContToks(request) ==
    [k \in 1..Len(request.tokenized_continuation) |-> request.tokenized_continuation[k][1]]

\* pad_sequence(rows, batch_first=True, padding_value): the rows right-padded
\* to the longest of them.
PadSequence(rows, padding_value) ==
    LET m == MaxOf({Len(rows[i]) : i \in 1..Len(rows)})
    IN  [i \in 1..Len(rows) |-> rows[i] \o Repeat(padding_value, m - Len(rows[i]))]

\* pad_and_gather(output_tensor) on every process, tensors[p] being the
\* [rows, length] tensor of process p: the lengths are gathered, each tensor
\* is padded to the longest with `value`, and the tensors are gathered.
PadAndGatherData(tensors, value) ==
    LET ps == DOMAIN tensors
        length_tensor == Concat([p \in ps |->
                            [i \in 1..Len(tensors[p]) |-> Len(tensors[p][1])]])
        longest == MaxOf(Range(length_tensor))
        padded == [p \in ps |->
                     [i \in 1..Len(tensors[p]) |->
                         tensors[p][i] \o Repeat(value, longest - Len(tensors[p][i]))]]
    IN  [output_tensor |-> Concat(padded), length_tensor |-> length_tensor]

InitSingleToken ==
    /\ accelerator \in Accelerators
    /\ path = Idle
    /\ requests = <<>>
    /\ override_bs = NoInt
    /\ num_dataset_splits = 1
    /\ max_length = 0
    /\ capacity = <<>>
    /\ proc = <<>>
    /\ UnitsIdleExcept("single")
    /\ \E b \in 1..MaxBatchRows :
          single \in [pc : {"call"},
                      max_length : SingleWindows,
                      batch : [Procs -> [1..b -> SingleRequests]],
                      probes : {0},
                      forwards : {0},
                      local : {[p \in Procs |-> <<>>]},
                      gathered : {<<>>},
                      ret : {<<>>},
                      error : {None}]
    \* the dataset hands the requests out longest context first
    /\ LET all == Concat(single.batch)
       IN  \A i \in 1..(Len(all) - 1) :
              Len(all[i].tokenized_context) >= Len(all[i + 1].tokenized_context)

\* The requests of the call, in dataset order.
SingleAll == Concat(single.batch)

\* max_context of the group: len(dataset[0].tokenized_context[-max_length:]).
SingleMaxContext ==
    Len(LastK(SingleAll[1].tokenized_context, single.max_length))

\* loglikelihood_single_token: the choices are encoded and checked, then
\* _loglikelihood_single_token is entered.
TokenizeChoices ==
    /\ single.pc = "call"
    /\ single' = IF AnyChoiceLong(SingleAll)
                 THEN [single EXCEPT !.pc = "raised", !.error = "ValueError"]
                 ELSE [single EXCEPT !.pc = "batch"]
    /\ UNCHANGED runVars
    /\ UnitsUnchangedExcept("single")

\* The loop body of _loglikelihood_single_token on process p up to the
\* gathers: the batch size is found, the batch prepared and run through the
\* model, and the choices' log-probabilities read row by row.
ScoreLocal(p) ==
    LET batch == single.batch[p]
        rows == [i \in 1..Len(batch) |->
                    PrepareRow(batch[i].tokenized_context, SingleMaxContext, SingleMaxContext)]
        probs == [i \in 1..Len(batch) |->
                    [k \in 1..Len(ContToks(batch[i])) |->
                        LogProb(rows[i].input_length - 1, ContToks(batch[i])[k])]]
        ok == \A i \in 1..Len(batch) : rows[i].ok /\ ContToksTensorOk(batch[i])
    IN  /\ single.pc = "batch"
        /\ single.local[p] = <<>>
        /\ single' =
              IF ~ok
              THEN [single EXCEPT !.pc = "raised", !.error = "ValueError",
                                  !.probes = @ + 1, !.forwards = @ + 1]
              ELSE [single EXCEPT
                       !.probes = @ + 1, !.forwards = @ + 1,
                       !.local[p] = <<[input_ids |-> [i \in 1..Len(batch) |-> rows[i].input_ids],
                                       batch_probs |-> PadSequence(probs, SENTINEL),
                                       batch_cont_tokens |->
                                           PadSequence([i \in 1..Len(batch) |-> ContToks(batch[i])],
                                                       SENTINEL),
                                       truncated |-> [i \in 1..Len(batch) |-> rows[i].truncated],
                                       padded |-> [i \in 1..Len(batch) |-> rows[i].padded]]>>]
        /\ UNCHANGED runVars
        /\ UnitsUnchangedExcept("single")

\* The three pad_and_gather calls and the two metric gathers of the batch,
\* which complete once every process has reached them.
GatherSingle ==
    LET part(f) == [p \in Procs |-> single.local[p][1][f]]
    IN  /\ single.pc = "batch"
        /\ \A p \in Procs : single.local[p] # <<>>
        /\ single' = [single EXCEPT
                         !.pc = "gathered",
                         !.gathered =
                             <<[inputs |-> PadAndGatherData(part("input_ids"), pad_token_id),
                                probs |-> PadAndGatherData(part("batch_probs"), pad_token_id),
                                cont |-> PadAndGatherData(part("batch_cont_tokens"), pad_token_id),
                                truncated |-> Concat(part("truncated")),
                                padded |-> Concat(part("padded"))]>>]
        /\ UNCHANGED runVars
        /\ UnitsUnchangedExcept("single")

\* One LoglikelihoodSingleTokenResponse per gathered row, and the return.
RespondSingle ==
    LET g == single.gathered[1]
    IN  /\ single.pc = "gathered"
        /\ single' = [single EXCEPT
                         !.pc = "returned",
                         !.ret = [ix \in 1..Len(g.probs.output_tensor) |->
                                    [result |-> Slice(g.probs.output_tensor[ix], 0,
                                                      g.probs.length_tensor[ix]),
                                     input_tokens |-> Slice(g.inputs.output_tensor[ix], 0,
                                                            g.inputs.length_tensor[ix]),
                                     generated_tokens |-> Slice(g.cont.output_tensor[ix], 0,
                                                                g.cont.length_tensor[ix]),
                                     truncated_tokens_count |-> g.truncated[ix],
                                     padded_tokens_count |-> g.padded[ix]]]]
        /\ UNCHANGED runVars
        /\ UnitsUnchangedExcept("single")

NextSingleToken ==
    \/ TokenizeChoices
    \/ \E p \in Procs : ScoreLocal(p)
    \/ GatherSingle
    \/ RespondSingle

SpecSingleToken == InitSingleToken /\ [][NextSingleToken]_vars

(***************************************************************************)
(* Claims on loglikelihood_single_token.                                   *)
(***************************************************************************)
SingleRuns == single.pc # Idle

\* The log-probabilities of the choices of the request of gathered row ix,
\* read at the last real input position of its row.
OwnChoiceLogProbs(ix) ==
    LET request == SingleAll[ix]
        inplen == Min(Len(request.tokenized_context), SingleMaxContext)
    IN  [k \in 1..Len(request.tokenized_continuation) |->
            LogProb(inplen - 1, request.tokenized_continuation[k][1])]

\* C12 (as claimed): every response's result holds one log-probability per
\* choice of its own request, whatever the number of choices of the other
\* requests of the batch or of the other processes, each read at logit row
\* input_lengths[i] - 1.
C12_OneLogProbPerChoice ==
    (SingleRuns /\ single.pc = "returned") =>
        \A ix \in 1..Len(single.ret) :
            single.ret[ix].result = OwnChoiceLogProbs(ix)

\* C13 (as claimed): scoring (a batch-size probe, a forward pass) is reached
\* only if every choice of every request is encoded as exactly one token;
\* with a choice of several tokens the call raises before any probe or
\* forward pass and returns nothing.
C13_SingleTokenPrecondition ==
    SingleRuns =>
        /\ (single.probes > 0 \/ single.forwards > 0) =>
              \A i \in 1..Len(SingleAll) : ContToksTensorOk(SingleAll[i])
        /\ (single.pc # "call" /\ AnyChoiceLong(SingleAll)) =>
              /\ single.pc = "raised"
              /\ single.probes = 0 /\ single.forwards = 0
              /\ single.ret = <<>>

\* The cells pad_and_gather added to gathered row ix of tensor g all hold
\* value v, and the row has the width of the longest tensor.
AddedCellsHold(g, v) ==
    \A ix \in 1..Len(g.output_tensor) :
        /\ Len(g.output_tensor[ix]) = MaxOf(Range(g.length_tensor))
        /\ \A c \in (g.length_tensor[ix] + 1)..Len(g.output_tensor[ix]) :
              g.output_tensor[ix][c] = v

\* C18 (as claimed): pad_and_gather gathers the trailing lengths, pads to the
\* longest and then gathers, so all gathered rows have one width; the cells it
\* adds hold the pad id in token-id tensors and -65504 in score tensors.
C18_PadAndGatherCells ==
    (SingleRuns /\ single.gathered # <<>>) =>
        /\ AddedCellsHold(single.gathered[1].inputs, pad_token_id)
        /\ AddedCellsHold(single.gathered[1].cont, pad_token_id)
        /\ AddedCellsHold(single.gathered[1].probs, SENTINEL)

(***************************************************************************)
(* The tokenizer, on a small vocabulary: text is a sequence of characters, *)
(* a token stands for one or two characters.                               *)
(***************************************************************************)
Chars == {"a", "b"}

\* decode: the text of each token id.
TokenText(t) ==
    CASE t = 1 -> <<"a">>
      [] t = 2 -> <<"b">>
      [] t = 3 -> <<"a", "b">>
      [] OTHER -> <<>>

GenTokens == {1, 2, 3}

\* tokenizer.decode(ids): the texts of the tokens, concatenated.
Decode(ids) == Concat([k \in 1..Len(ids) |-> TokenText(ids[k])])

\* tokenizer.encode(text, add_special_tokens=False): longest match first.
RECURSIVE Encode(_)
Encode(text) ==
    IF text = <<>> THEN <<>>
    ELSE IF Len(text) >= 2 /\ text[1] = "a" /\ text[2] = "b"
    THEN <<3>> \o Encode(SubSeq(text, 3, Len(text)))
    ELSE <<(IF text[1] = "a" THEN 1 ELSE 2)>> \o Encode(Tail(text))

(***************************************************************************)
(* greedy_until: the Batch built for one batch of requests and the counts  *)
(* reported in its responses (specification SpecGenerationBatch).          *)
(***************************************************************************)
MaxContextChars == 3

GenerationSizes == {NoInt, Some(1), Some(2)}

GenerationWindows == {2, 3}

\* tokenizer(context, truncation="longest_first", padding="max_length",
\* max_length=columns) with truncation and padding on the left: the ids and
\* the attention mask of one row.
TokenizeRow(context, columns) ==
    LET ids == Encode(context)
        kept == IF Len(ids) > columns THEN SubSeq(ids, Len(ids) - columns + 1, Len(ids)) ELSE ids
        pad == columns - Len(kept)
    IN  [input_ids |-> Repeat(pad_token_id, pad) \o kept,
         attention_mask |-> Repeat(0, pad) \o Repeat(1, Len(kept))]

\* max_context_continuation_size_allowed of a group of greedy_until.
GenerationColumns(head_context, generation_size, window) ==
    IF generation_size = NoInt THEN window
    ELSE Min(Len(Encode(head_context)) + ValueOf(generation_size), window)

\* max_new_tokens as greedy_until passes it to _generate for a batch of
\* context_size columns.
GenerationMaxNewTokens(generation_size, context_size, window) ==
    IF context_size > window THEN 1
    ELSE IF generation_size = NoInt THEN window - context_size
    ELSE IF Min(window - context_size, ValueOf(generation_size)) < 1 THEN 1
    ELSE Min(window - context_size, ValueOf(generation_size))

\* `len(item == 1)`: the length of the tensor of comparisons.
LenOfComparison(mask) == Len(mask)

\* `sum(mask == 0)`.
CountZeros(mask) == Cardinality({k \in 1..Len(mask) : mask[k] = 0})

\* The Batch greedy_until builds from the tokenizer's output.
GenerationBatch(contexts, columns) ==
    LET tokenized == [i \in 1..Len(contexts) |-> TokenizeRow(contexts[i], columns)]
        num_columns == Len(tokenized[1].input_ids)
    IN  [input_ids |-> [i \in 1..Len(contexts) |-> tokenized[i].input_ids],
         input_lengths |-> [i \in 1..Len(contexts) |-> LenOfComparison(tokenized[i].attention_mask)],
         input_mask |-> [i \in 1..Len(contexts) |-> tokenized[i].attention_mask],
         truncated |-> [i \in 1..Len(contexts) |-> Max(Len(contexts[i]) - num_columns, 0)],
         padded |-> [i \in 1..Len(contexts) |-> CountZeros(tokenized[i].attention_mask)]]

InitGenerationBatch ==
    /\ IdleRun
    /\ UnitsIdleExcept("generation")
    /\ \E n \in 1..MaxBatchRows :
          generation \in [pc : {"batch"},
                          context : [1..n -> SeqsUpTo(Chars, 1, MaxContextChars)],
                          generation_size : GenerationSizes,
                          max_length : GenerationWindows,
                          batch : {<<>>},
                          max_new_tokens : {0},
                          responses : {<<>>}]
    \* the dataset hands the requests out longest tokenized context first
    /\ \A i \in 1..(Len(generation.context) - 1) :
          Len(Encode(generation.context[i])) >= Len(Encode(generation.context[i + 1]))

\* The batch is tokenized and the Batch built (the first batch of its group).
BuildGenerationBatch ==
    LET columns == GenerationColumns(generation.context[1], generation.generation_size,
                                     generation.max_length)
        batch == GenerationBatch(generation.context, columns)
    IN  /\ generation.pc = "batch"
        /\ generation' = [generation EXCEPT
                             !.pc = "built",
                             !.batch = <<batch>>,
                             !.max_new_tokens =
                                 GenerationMaxNewTokens(generation.generation_size,
                                                        Len(batch.input_ids[1]),
                                                        generation.max_length)]
        /\ UNCHANGED runVars
        /\ UnitsUnchangedExcept("generation")

\* _generate: one GenerativeResponse per row, with the counts of the Batch.
RespondGeneration ==
    LET batch == generation.batch[1]
    IN  /\ generation.pc = "built"
        /\ generation' = [generation EXCEPT
                             !.pc = "responded",
                             !.responses =
                                 [ix \in 1..Len(batch.input_ids) |->
                                     [input_tokens |-> batch.input_ids[ix],
                                      truncated_tokens_count |-> batch.truncated[ix],
                                      padded_tokens_count |-> batch.padded[ix]]]]
        /\ UNCHANGED runVars
        /\ UnitsUnchangedExcept("generation")

NextGenerationBatch == BuildGenerationBatch \/ RespondGeneration

SpecGenerationBatch == InitGenerationBatch /\ [][NextGenerationBatch]_vars

\* The real (non-pad) tokens of row i of the Batch built.
RealTokens(i) == Cardinality({k \in 1..Len(generation.batch[1].input_mask[i]) :
                                 generation.batch[1].input_mask[i][k] = 1})

\* C14 (as claimed): every Batch built, by prepare_batch_logprob and by
\* greedy_until, is rectangular, and in every row input_lengths, the count
\* of real tokens, plus padded is the number of columns.
C14_BatchRectangular ==
    /\ (Prepared /\ scoring.batch[1].ok) =>
          LET batch == scoring.batch[1]
          IN  \A i \in 1..Len(batch.input_ids) :
                 /\ Len(batch.input_ids[i]) = scoring.width
                 /\ batch.input_lengths[i] + batch.padded[i] = scoring.width
    /\ (generation.pc # Idle /\ generation.batch # <<>>) =>
          LET batch == generation.batch[1]
              num_columns == Len(batch.input_ids[1])
          IN  \A i \in 1..Len(batch.input_ids) :
                 /\ Len(batch.input_ids[i]) = num_columns
                 /\ batch.input_lengths[i] = RealTokens(i)
                 /\ batch.input_lengths[i] + batch.padded[i] = num_columns

\* C15 (as claimed): the truncated_tokens_count of a generation response is
\* the number of context tokens the tokenizer dropped, 0 when the tokenized
\* context fits in the columns.
C15_GenerationTruncatedCount ==
    (generation.pc # Idle /\ generation.pc = "responded") =>
        \A ix \in 1..Len(generation.responses) :
            LET tokens == Len(Encode(generation.context[ix]))
                num_columns == Len(generation.batch[1].input_ids[ix])
            IN  generation.responses[ix].truncated_tokens_count
                    = tokens - Min(tokens, num_columns)

(***************************************************************************)
(* One model.generate call of _generate under stop_sequences_criteria, and *)
(* the decoding of its output (specification SpecStop).                    *)
(***************************************************************************)
MaxNewTokens == 3

\* The stop fragments of a request, as texts.
StopFragments == {<<"b">>, <<"a", "b">>, <<"b", "a">>, <<"a", "a">>}

\* (rows of the Batch, num_samples): generate works on their product.
StopBatchShapes == {<<1, 1>>, <<2, 1>>, <<1, 2>>}

\* The prompts of the batch, as token ids; both read "ba".
StopPrompts == {<<2, 1>>}

\* term occurs in text at (1-based) position k.
OccursAt(text, term, k) ==
    /\ k + Len(term) - 1 <= Len(text)
    /\ SubSeq(text, k, k + Len(term) - 1) = term

\* Python's `term in text`.
Contains(text, term) == \E k \in 1..(Len(text) + 1) : OccursAt(text, term, k)

\* Python's `text.split(term)[0]` for a non-empty term.
SplitFirst(text, term) ==
    IF Contains(text, term)
    THEN LET k == CHOOSE j \in 1..Len(text) :
                     /\ OccursAt(text, term, j)
                     /\ \A i \in 1..(j - 1) : ~OccursAt(text, term, i)
         IN  SubSeq(text, 1, k - 1)
    ELSE text

\* `for term in stop_tokens: decoded_generation = decoded_generation.split(term)[0]`.
RECURSIVE CutAtStops(_, _)
CutAtStops(decoded_generation, stop_tokens) ==
    IF stop_tokens = <<>> THEN decoded_generation
    ELSE CutAtStops(SplitFirst(decoded_generation, Head(stop_tokens)), Tail(stop_tokens))

\* MultiTokenEOSCriteria.__call__ of the criterion of `sequence` on
\* input_ids: the window decoded for every row, the done_tracker after the
\* call, and the value returned.
CriteriaCall(sequence, initial_decoder_input_length, done_tracker, input_ids) ==
    LET sequence_id_len == Len(Encode(sequence))
        lookback_tokens_batch ==
            [i \in 1..Len(input_ids) |->
                Decode(LastK(Slice(input_ids[i], initial_decoder_input_length,
                                   Len(input_ids[i])),
                             sequence_id_len))]
        after == [i \in 1..Len(done_tracker) |->
                     IF ~done_tracker[i]
                     THEN Contains(lookback_tokens_batch[i], sequence)
                     ELSE done_tracker[i]]
    IN  [windows |-> lookback_tokens_batch,
         done_tracker |-> after,
         halt |-> \A i \in 1..Len(after) : after[i]]

InitStop ==
    /\ IdleRun
    /\ UnitsIdleExcept("criteria")
    /\ \E shape \in StopBatchShapes, prompt \in StopPrompts, n \in 1..2 :
          \E stops \in [1..n -> StopFragments] :
              criteria = [pc |-> "generating",
                          batch_size |-> shape[1],
                          num_samples |-> shape[2],
                          stop_tokens |-> stops,
                          initial_decoder_input_length |-> Len(prompt),
                          \* generate repeats every row of the Batch num_samples times
                          input_ids |-> [r \in 1..(shape[1] * shape[2]) |-> prompt],
                          \* stop_sequences_criteria: one criterion per fragment
                          done_tracker |-> [c \in 1..n |-> [i \in 1..shape[1] |-> FALSE]],
                          calls |-> <<>>,
                          result |-> <<>>]

\* One step of model.generate: every row gets its next token, then the
\* StoppingCriteriaList is called; generation halts if a criterion says so
\* or when max_new_tokens tokens were generated.
GenerateStep(new_tokens) ==
    LET input_ids == [r \in 1..Len(criteria.input_ids) |->
                         Append(criteria.input_ids[r], new_tokens[r])]
        called == [c \in 1..Len(criteria.stop_tokens) |->
                      CriteriaCall(criteria.stop_tokens[c],
                                   criteria.initial_decoder_input_length,
                                   criteria.done_tracker[c], input_ids)]
        generated == Len(input_ids[1]) - criteria.initial_decoder_input_length
    IN  /\ criteria.pc = "generating"
        /\ criteria' = [criteria EXCEPT
              !.input_ids = input_ids,
              !.done_tracker = [c \in 1..Len(called) |-> called[c].done_tracker],
              !.calls = Append(@, [c \in 1..Len(called) |->
                                      [windows |-> called[c].windows,
                                       before |-> criteria.done_tracker[c],
                                       after |-> called[c].done_tracker,
                                       halt |-> called[c].halt]]),
              !.pc = IF (\E c \in 1..Len(called) : called[c].halt) \/ generated >= MaxNewTokens
                     THEN "halted" ELSE "generating"]
        /\ UNCHANGED runVars
        /\ UnitsUnchangedExcept("criteria")

\* The end of _generate: every generation is decoded and cut at the stops.
DecodeGenerations ==
    /\ criteria.pc = "halted"
    /\ criteria' = [criteria EXCEPT
          !.pc = "decoded",
          !.result = [r \in 1..Len(criteria.input_ids) |->
                         CutAtStops(Decode(Slice(criteria.input_ids[r],
                                                 criteria.initial_decoder_input_length,
                                                 Len(criteria.input_ids[r]))),
                                    criteria.stop_tokens)]]
    /\ UNCHANGED runVars
    /\ UnitsUnchangedExcept("criteria")

NextStop ==
    \/ \E new_tokens \in [1..Len(criteria.input_ids) -> GenTokens] : GenerateStep(new_tokens)
    \/ DecodeGenerations

SpecStop == InitStop /\ [][NextStop]_vars

(***************************************************************************)
(* Claims on the stopping criteria and the cut of the decoded text.        *)
(***************************************************************************)
\* The tokens row r had generated after step t of the generate call.
GeneratedAfter(r, t) ==
    SubSeq(criteria.input_ids[r], criteria.initial_decoder_input_length + 1,
           criteria.initial_decoder_input_length + t)

\* The decoded trailing window of row r at step t for a stop fragment: the
\* last tokens generated, as many as the fragment has tokens.
TrailingWindow(r, t, fragment) ==
    LET generated == GeneratedAfter(r, t)
        n == Len(Encode(fragment))
    IN  Decode(SubSeq(generated, Max(Len(generated) - n, 0) + 1, Len(generated)))

\* C16 (as claimed): a criterion signals halt at a step only if the done flag
\* of every row of the batch generate works on is set; a flag is set only at
\* a step where the decoded trailing window of that row's newly generated
\* tokens contains the fragment; a flag once set stays set; all flags start
\* false.
C16_HaltOnlyWhenAllRowsDone ==
    criteria.pc # Idle =>
        /\ criteria.calls = <<>> =>
              \A c \in 1..Len(criteria.done_tracker) :
                  \A i \in 1..Len(criteria.done_tracker[c]) : ~criteria.done_tracker[c][i]
        /\ \A t \in 1..Len(criteria.calls) :
              \A c \in 1..Len(criteria.stop_tokens) :
                  LET call == criteria.calls[t][c]
                  IN  /\ call.halt =>
                            \A r \in 1..Len(criteria.input_ids) :
                                r <= Len(call.after) /\ call.after[r]
                      /\ \A i \in 1..Len(call.after) :
                            /\ (~call.before[i] /\ call.after[i]) =>
                                  Contains(TrailingWindow(i, t, criteria.stop_tokens[c]),
                                           criteria.stop_tokens[c])
                            /\ call.before[i] => call.after[i]
                            /\ call.before[i] =
                                  (IF t = 1 THEN FALSE ELSE criteria.calls[t - 1][c].after[i])

\* The positions of text at which a stop fragment begins.
StopStarts(text, stop_tokens) ==
    {k \in 1..Len(text) : \E c \in 1..Len(stop_tokens) : OccursAt(text, stop_tokens[c], k)}

\* C17 (as claimed): the text returned is the decoded text cut at the
\* earliest position at which any stop fragment begins (unchanged if none
\* occurs) and contains no stop fragment, whatever the order of the
\* fragments and also when their occurrences overlap.
C17_CutAtEarliestStop ==
    (criteria.pc # Idle /\ criteria.pc = "decoded") =>
        \A r \in 1..Len(criteria.result) :
            LET text == Decode(GeneratedAfter(r, Len(criteria.calls)))
                starts == StopStarts(text, criteria.stop_tokens)
                first == CHOOSE k \in starts : \A j \in starts : k <= j
            IN  /\ criteria.result[r] =
                      (IF starts = {} THEN text ELSE SubSeq(text, 1, first - 1))
                /\ \A c \in 1..Len(criteria.stop_tokens) :
                      ~Contains(criteria.result[r], criteria.stop_tokens[c])

(***************************************************************************)
(* build_tokenized_answer: the prompt/answer split of the encoding of      *)
(* prompt + answer (specification SpecAnswer).  The tokenizer is the one   *)
(* loaded with the model; here it is a byte-pair encoder whose merge table *)
(* is an input, a token being named by its text.                           *)
(***************************************************************************)
MaxPromptChars == 3
MaxAnswerChars == 2
MaxMerges == 3

TextsUpTo(n) == UNION {[1..k -> Chars] : k \in 0..n}

\* The pairs of adjacent tokens a merge table may list.
MergePairs ==
    { <<<<"a">>, <<"a">>>>, <<<<"a">>, <<"b">>>>, <<<<"b">>, <<"b">>>>,
      <<<<"a">>, <<"b", "b">>>> }

\* The merge tables: ranked lists of distinct pairs, best rank first.
MergeTables ==
    {m \in UNION {[1..k -> MergePairs] : k \in 0..MaxMerges} :
        \A i, j \in 1..Len(m) : i # j => m[i] # m[j]}

\* The ranks of the merges that apply to some adjacent pair of tokens.
ApplicableRanks(tokens, merges) ==
    {r \in 1..Len(merges) :
        \E i \in 1..(Len(tokens) - 1) : <<tokens[i], tokens[i + 1]>> = merges[r]}

\* Byte-pair encoding: the applicable merge of best rank is applied at its
\* leftmost place until no merge applies.
RECURSIVE Bpe(_, _)
Bpe(tokens, merges) ==
    LET ranks == ApplicableRanks(tokens, merges)
    IN  IF ranks = {} THEN tokens
        ELSE LET r == CHOOSE x \in ranks : \A y \in ranks : x <= y
                 places == {i \in 1..(Len(tokens) - 1) :
                               <<tokens[i], tokens[i + 1]>> = merges[r]}
                 i == CHOOSE x \in places : \A y \in places : x <= y
             IN  Bpe(SubSeq(tokens, 1, i - 1) \o <<tokens[i] \o tokens[i + 1]>>
                         \o SubSeq(tokens, i + 2, Len(tokens)),
                     merges)

\* self.tokenizer(text, add_special_tokens=False): ids and a mask of ones.
Tokenizer(text, merges) ==
    LET input_ids == Bpe([k \in 1..Len(text) |-> <<text[k]>>], merges)
    IN  [input_ids |-> input_ids,
         attention_mask |-> [k \in 1..Len(input_ids) |-> 1]]

\* The split point when the comparison with the prompt prefix is left out.
ResponseStartNoMerge(prompt_input_ids, full_input_ids) == Len(prompt_input_ids)

\* response_token_ids_start_idx: len(prompt_input_ids), one less if the
\* prompt encoded alone is not the prefix of that length of the full encoding.
ResponseTokenIdsStartIdx(prompt_input_ids, full_input_ids) ==
    IF prompt_input_ids # Slice(full_input_ids, 0, Len(prompt_input_ids))
    THEN Len(prompt_input_ids) - 1
    ELSE Len(prompt_input_ids)

\* build_tokenized_answer(prompt, answer): the dict returned, or the raise.
BuildTokenizedAnswer(prompt, answer, merges) ==
    LET full_tokenized == Tokenizer(prompt \o answer, merges)
        prompt_input_ids == Tokenizer(prompt, merges).input_ids
        answer_input_ids == Slice(full_tokenized.input_ids, Len(prompt_input_ids),
                                  Len(full_tokenized.input_ids))
        full_concat_input_ids == prompt_input_ids \o answer_input_ids
        full_input_ids == full_tokenized.input_ids
        response_token_ids_start_idx ==
            ResponseTokenIdsStartIdx(prompt_input_ids, full_input_ids)
        prompt_ids == Slice(full_input_ids, 0, response_token_ids_start_idx)
        prompt_attention_mask ==
            Slice(full_tokenized.attention_mask, 0, response_token_ids_start_idx)
    IN  IF Len(full_input_ids) # Len(full_concat_input_ids)
        THEN [raised |-> TRUE]
        ELSE IF Len(prompt_ids) # Len(prompt_attention_mask)
        THEN [raised |-> TRUE]
        ELSE [raised |-> FALSE,
              prompt_input_ids |-> prompt_ids,
              prompt_attention_mask |-> prompt_attention_mask,
              input_ids |-> Slice(full_input_ids, response_token_ids_start_idx,
                                  Len(full_input_ids)),
              attention_mask |-> Slice(full_tokenized.attention_mask,
                                       response_token_ids_start_idx,
                                       Len(full_input_ids))]

InitAnswer ==
    /\ IdleRun
    /\ UnitsIdleExcept("tokenization")
    /\ \E prompt \in TextsUpTo(MaxPromptChars), answer \in TextsUpTo(MaxAnswerChars),
          merges \in MergeTables :
          tokenization = [pc |-> "called", prompt |-> prompt, answer |-> answer,
                          merges |-> merges]

\* The call: it returns the split or raises ValueError.
BuildAnswer ==
    LET out == BuildTokenizedAnswer(tokenization.prompt, tokenization.answer,
                                    tokenization.merges)
    IN  /\ tokenization.pc = "called"
        /\ tokenization' = [pc |-> IF out.raised THEN "raised" ELSE "returned",
                            prompt |-> tokenization.prompt,
                            answer |-> tokenization.answer,
                            merges |-> tokenization.merges,
                            out |-> out]
        /\ UNCHANGED runVars
        /\ UnitsUnchangedExcept("tokenization")

NextAnswer == BuildAnswer

SpecAnswer == InitAnswer /\ [][NextAnswer]_vars

(***************************************************************************)
(* Claims on build_tokenized_answer.                                       *)
(***************************************************************************)
\* The encodings the claims speak of: the prompt alone, prompt + answer.
PromptAlone == Tokenizer(tokenization.prompt, tokenization.merges).input_ids
FullEncoding ==
    Tokenizer(tokenization.prompt \o tokenization.answer, tokenization.merges).input_ids

\* A token of the full encoding holds the end of the prompt and the start
\* of the answer: no run of leading tokens spells exactly the prompt.
BoundaryMerged ==
    ~\E k \in 0..Len(FullEncoding) :
        Concat(SubSeq(FullEncoding, 1, k)) = tokenization.prompt

\* C19: whenever build_tokenized_answer returns, prompt_input_ids followed
\* by input_ids is exactly the encoding of prompt + answer, and the split
\* point is len(encode(prompt)), or one less when a token merged across the
\* end of the prompt.
C19_SplitOfSingleEncoding ==
    (tokenization.pc # Idle /\ tokenization.pc = "returned") =>
        /\ tokenization.out.prompt_input_ids \o tokenization.out.input_ids = FullEncoding
        /\ Len(tokenization.out.prompt_input_ids) =
              (IF BoundaryMerged THEN Len(PromptAlone) - 1 ELSE Len(PromptAlone))

\* A call that returned with a token merged across the end of a prompt that
\* keeps a token of its own.
C19_Witness ==
    /\ tokenization.pc # Idle
    /\ tokenization.pc = "returned"
    /\ BoundaryMerged
    /\ Len(tokenization.out.prompt_input_ids) >= 1
    /\ Len(tokenization.out.input_ids) >= 2

\* The prompt encoded alone and the full encoding disagree before the last
\* prompt token.
MoreThanLastTokenDiffers ==
    /\ Len(PromptAlone) >= 1
    /\ DropLast(PromptAlone) # Slice(FullEncoding, 0, Len(PromptAlone) - 1)

\* C20 (as claimed): build_tokenized_answer raises exactly when the prompt
\* encoded alone disagrees with the prefix of the full encoding in more than
\* the last prompt token; it never returns a split for such a tokenizer.
C20_RaisesOnInconsistentPrefix ==
    (tokenization.pc # Idle /\ tokenization.pc # "called") =>
        (tokenization.out.raised <=> MoreThanLastTokenDiffers)

(***************************************************************************)
(* Further claims on prepare_batch_logprob and the score extraction.       *)
(***************************************************************************)
\* C26 (as claimed): in a Batch built by prepare_batch_logprob the
\* input_mask of a row is true at exactly its real-token positions, the
\* first input_lengths columns, and false at exactly the padded columns,
\* also when a real token has the id of the pad token.
C26_MaskMarksRealTokens ==
    (Prepared /\ scoring.pc # "raised") =>
        LET batch == scoring.batch[1]
        IN  \A k \in 1..Len(batch.input_ids[1]) :
                batch.input_mask[1][k] <=> (k <= batch.input_lengths[1])

\* C27: for a request whose continuation is no longer than its input row,
\* exactly contlen positions are scored, the positions inplen - contlen ..
\* inplen - 1; the position scored against continuation token k holds the
\* token just before it in context + continuation, so every continuation
\* token is scored once and no pad position is scored.
C27_ContinuationAligned ==
    (Scored /\ Len(scoring.tokenized_continuation) <= scoring.batch[1].input_lengths[1]) =>
        LET cont == scoring.tokenized_continuation
            contlen == Len(cont)
            whole == scoring.tokenized_context \o cont
            inplen == scoring.batch[1].input_lengths[1]
            row == scoring.batch[1].input_ids[1]
            summed == scoring.score[1].summed
        IN  /\ Cardinality(summed) = contlen
            /\ summed = {<<inplen - contlen + k - 1, cont[k]>> : k \in 1..contlen}
            /\ \A k \in 1..contlen :
                  /\ inplen - contlen + k - 1 >= 0
                  /\ inplen - contlen + k - 1 < inplen
                  /\ row[inplen - contlen + k] = whole[Len(scoring.tokenized_context) + k - 1]

\* A scored request of two continuation tokens whose row was cut on the left.
C27_Witness ==
    /\ Scored
    /\ Len(scoring.tokenized_continuation) = 2
    /\ scoring.batch[1].input_lengths[1] >= 2
    /\ scoring.batch[1].truncated[1] > 0
    /\ scoring.tokenized_continuation[1] # scoring.tokenized_context[Len(scoring.tokenized_context)]

(***************************************************************************)
(* Further claims on a scoring call.                                       *)
(***************************************************************************)
\* The scoring methods that probe the batch size of each group.
ProbingPaths ==
    {"greedy_until", "loglikelihood", "loglikelihood_rolling",
     "loglikelihood_single_token"}

\* C25 (as claimed): in every scoring path that probes batch sizes per
\* group, the probe of the first group starts at 512 and the probe of each
\* later group starts at twice the batch size returned for the group before.
C25_ProbeStartDoubles ==
    (path \in ProbingPaths /\ OverrideIsPositive(override_bs) = "False") =>
        \A p \in Procs :
            (proc[p].pc = "split" /\ proc[p].split <= NumSplits) =>
                StartingBatchSizeArg(proc[p].starting_batch_size) =
                    (IF proc[p].sizes = <<>> THEN STARTING_BATCH_SIZE
                     ELSE 2 * proc[p].sizes[Len(proc[p].sizes)])

(***************************************************************************)
(* Further claims on the stopping criteria.                                *)
(***************************************************************************)
\* Row r has emitted the fragment within its first t generated tokens.
Emitted(r, t, fragment) == Contains(Decode(GeneratedAfter(r, t)), fragment)

\* C28 (as claimed): the tracker of every criterion holds one done flag per
\* row generate works on, batch_size * num_samples of them, and a criterion
\* signals halt only when every one of those rows has emitted its fragment.
C28_OneFlagPerGeneratedRow ==
    criteria.pc # Idle =>
        /\ Len(criteria.input_ids) = criteria.batch_size * criteria.num_samples
        /\ \A c \in 1..Len(criteria.stop_tokens) :
              /\ Len(criteria.done_tracker[c]) = Len(criteria.input_ids)
              /\ \A t \in 1..Len(criteria.calls) :
                    criteria.calls[t][c].halt =>
                        \A r \in 1..Len(criteria.input_ids) :
                            Emitted(r, t, criteria.stop_tokens[c])

\* The fragment was in the decoded trailing window of row r at one of the
\* first t steps.
Detected(r, t, fragment) ==
    \E u \in 1..t : Contains(TrailingWindow(r, u, fragment), fragment)

\* Every row has emitted at least one of the stop fragments by step t.
AllRowsFinished(t) ==
    \A r \in 1..Len(criteria.input_ids) :
        \E c \in 1..Len(criteria.stop_tokens) : Detected(r, t, criteria.stop_tokens[c])

\* C30 (as claimed): generation halts no later than the first step at which
\* every row has emitted at least one of the stop fragments, also when
\* different rows stopped on different fragments: no step is taken after
\* such a step.
C30_HaltsWhenAllRowsFinished ==
    criteria.pc # Idle =>
        \A t \in 1..Len(criteria.calls) :
            AllRowsFinished(t) => Len(criteria.calls) <= t

(***************************************************************************)
(* Further claim on the Batch of greedy_until.                             *)
(***************************************************************************)
\* C29 (as claimed): for every generation batch of greedy_until the
\* max_new_tokens passed to the model is at least 1, whether generation_size
\* is set or None, and the number of input columns plus max_new_tokens never
\* exceeds the model's max_length.
C29_GenerationBudget ==
    (generation.pc # Idle /\ generation.batch # <<>>) =>
        /\ generation.max_new_tokens >= 1
        /\ Len(generation.batch[1].input_ids[1]) + generation.max_new_tokens
              <= generation.max_length

(***************************************************************************)
(* tokenize_row: the chosen and rejected sequences of a preference pair    *)
(* and their labels (specification SpecTokenizeRow).                       *)
(***************************************************************************)
label_pad_token_id == -100

\* The id of the end-of-sequence token, which is the pad token too, and the
\* id of the beginning-of-sequence token; no text token has these ids.
eos_token_id == 0
bos_token_id == 99

\* The id of a token named by its text: its characters read as a numeral.
RECURSIVE TokenId(_)
TokenId(token) ==
    IF token = <<>> THEN 0
    ELSE 3 * TokenId(SubSeq(token, 1, Len(token) - 1))
            + (IF token[Len(token)] = "a" THEN 1 ELSE 2)

TokenIds(tokens) == [k \in 1..Len(tokens) |-> TokenId(tokens[k])]

\* Python's `text.replace(term, "")`.
RECURSIVE RemoveAll(_, _)
RemoveAll(text, term) ==
    IF term = <<>> \/ Len(text) < Len(term) THEN text
    ELSE IF OccursAt(text, term, 1)
    THEN RemoveAll(SubSeq(text, Len(term) + 1, Len(text)), term)
    ELSE <<text[1]>> \o RemoveAll(Tail(text), term)

\* s[:n] of Python for any integer n.
UpTo(s, n) == IF n >= 0 THEN Slice(s, 0, n) ELSE Slice(s, 0, Max(Len(s) + n, 0))

\* self.truncation_mode, self.max_prompt_length and self._max_length of the
\* rows explored.
TruncationModes == {"keep_start", "keep_end", "keep_middle"}
PromptBudgets == {1, 2}
RowWindows == {1, 3, 4, 6}

\* The chosen and rejected texts of the pairs explored, and the merge
\* tables of the tokenizer.
RowAnswers == {<<"a">>, <<"b">>, <<"a", "b">>, <<"b", "a", "b">>}
RowMergeTables ==
    { <<>>,
      << <<<<"a">>, <<"b">>>> >>,
      << <<<<"b">>, <<"b">>>>, <<<<"a">>, <<"b", "b">>>> >> }

\* "if combined sequence is too long, truncate the prompt": one turn of the
\* loop, on the ids or on the attention mask; ok = FALSE for the ValueError
\* of an unknown truncation mode.
TruncatePrompt(prompt_part, longer_response_length, truncation_mode, max_length_, max_prompt_length) ==
    IF Len(prompt_part) + longer_response_length > max_length_
    THEN IF truncation_mode = "keep_start"
         THEN [ok |-> TRUE, kept |-> UpTo(prompt_part, max_prompt_length)]
         ELSE IF truncation_mode = "keep_end"
         THEN [ok |-> TRUE, kept |-> LastK(prompt_part, max_prompt_length)]
         ELSE [ok |-> FALSE, kept |-> prompt_part]
    ELSE [ok |-> TRUE, kept |-> prompt_part]

\* "if that's still too long, truncate the response".
TruncateResponse(prompt_part, response, longer_response_length, max_length_, max_prompt_length) ==
    IF Len(prompt_part) + longer_response_length > max_length_
    THEN UpTo(response, max_length_ - max_prompt_length)
    ELSE response

\* The labels of a sequence: the ids, with label_pad_token_id over the
\* prompt part.
LabelsUnmasked(prompt_part, input_ids) == input_ids
Labels(prompt_part, input_ids) ==
    [i \in 1..Len(input_ids) |->
        IF i <= Len(prompt_part) THEN label_pad_token_id ELSE input_ids[i]]

\* tokenize_row, last part: the response is truncated if the sequence is
\* still too long, then the batch dict is put together with its labels.
AssembleRow(c_kept, c_kept_mask, r_kept, r_kept_mask, p_kept, p_kept_mask, c_ids, c_mask, r_ids, r_mask, longer_response_length, max_length_, max_prompt_length) ==
    [raised |-> FALSE,
     chosen_input_ids |->
         c_kept \o TruncateResponse(c_kept, c_ids, longer_response_length,
                                    max_length_, max_prompt_length),
     chosen_attention_mask |->
         c_kept_mask \o TruncateResponse(c_kept, c_mask, longer_response_length,
                                         max_length_, max_prompt_length),
     chosen_labels |->
         Labels(c_kept,
                c_kept \o TruncateResponse(c_kept, c_ids, longer_response_length,
                                           max_length_, max_prompt_length)),
     rejected_input_ids |->
         r_kept \o TruncateResponse(r_kept, r_ids, longer_response_length,
                                    max_length_, max_prompt_length),
     rejected_attention_mask |->
         r_kept_mask \o TruncateResponse(r_kept, r_mask, longer_response_length,
                                         max_length_, max_prompt_length),
     rejected_labels |->
         Labels(r_kept,
                r_kept \o TruncateResponse(r_kept, r_ids, longer_response_length,
                                           max_length_, max_prompt_length)),
     prompt_input_ids |-> p_kept,
     prompt_attention_mask |-> p_kept_mask]

\* tokenize_row, middle part: the three prompts are truncated if the longer
\* sequence is too long; an unknown truncation mode raises ValueError.
TruncateRow(p_ids, p_mask, c_prompt, c_prompt_mask, r_prompt, r_prompt_mask, c_ids, c_mask, r_ids, r_mask, longer_response_length, truncation_mode, max_length_, max_prompt_length) ==
    IF ~(/\ TruncatePrompt(c_prompt, longer_response_length, truncation_mode,
                           max_length_, max_prompt_length).ok
         /\ TruncatePrompt(r_prompt, longer_response_length, truncation_mode,
                           max_length_, max_prompt_length).ok
         /\ TruncatePrompt(p_ids, longer_response_length, truncation_mode,
                           max_length_, max_prompt_length).ok)
    THEN [raised |-> TRUE]
    ELSE AssembleRow(
             TruncatePrompt(c_prompt, longer_response_length, truncation_mode,
                            max_length_, max_prompt_length).kept,
             TruncatePrompt(c_prompt_mask, longer_response_length, truncation_mode,
                            max_length_, max_prompt_length).kept,
             TruncatePrompt(r_prompt, longer_response_length, truncation_mode,
                            max_length_, max_prompt_length).kept,
             TruncatePrompt(r_prompt_mask, longer_response_length, truncation_mode,
                            max_length_, max_prompt_length).kept,
             TruncatePrompt(p_ids, longer_response_length, truncation_mode,
                            max_length_, max_prompt_length).kept,
             TruncatePrompt(p_mask, longer_response_length, truncation_mode,
                            max_length_, max_prompt_length).kept,
             c_ids, c_mask, r_ids, r_mask, longer_response_length,
             max_length_, max_prompt_length)

\* tokenize_row, after the three encodings: BOS at the head of each prompt,
\* EOS at the end of each answer, then the truncation.
AddSpecialTokens(prompt_tokens, chosen_tokens, rejected_tokens, truncation_mode, max_length_, max_prompt_length) ==
    IF chosen_tokens.raised \/ rejected_tokens.raised THEN [raised |-> TRUE]
    ELSE TruncateRow(
             <<bos_token_id>> \o TokenIds(prompt_tokens.input_ids),
             <<1>> \o prompt_tokens.attention_mask,
             <<bos_token_id>> \o TokenIds(chosen_tokens.prompt_input_ids),
             <<1>> \o chosen_tokens.prompt_attention_mask,
             <<bos_token_id>> \o TokenIds(rejected_tokens.prompt_input_ids),
             <<1>> \o rejected_tokens.prompt_attention_mask,
             Append(TokenIds(chosen_tokens.input_ids), eos_token_id),
             Append(chosen_tokens.attention_mask, 1),
             Append(TokenIds(rejected_tokens.input_ids), eos_token_id),
             Append(rejected_tokens.attention_mask, 1),
             Max(Len(chosen_tokens.input_ids) + 1, Len(rejected_tokens.input_ids) + 1),
             truncation_mode, max_length_, max_prompt_length)

\* tokenize_row(request): the batch dict, or raised = TRUE for a ValueError.
DpoTokenizeRow(prompt, chosen_continuation, rejected_continuation, merges, truncation_mode, max_length_, max_prompt_length) ==
    AddSpecialTokens(
        Tokenizer(prompt, merges),
        BuildTokenizedAnswer(prompt, RemoveAll(chosen_continuation, prompt), merges),
        BuildTokenizedAnswer(prompt, RemoveAll(rejected_continuation, prompt), merges),
        truncation_mode, max_length_, max_prompt_length)

InitTokenizeRow ==
    /\ IdleRun
    /\ UnitsIdleExcept("preference")
    /\ preference \in [pc : {"called"},
                       context : TextsUpTo(MaxPromptChars),
                       chosen_continuation : RowAnswers,
                       rejected_continuation : RowAnswers,
                       merges : RowMergeTables,
                       truncation_mode : TruncationModes,
                       max_length : RowWindows,
                       max_prompt_length : PromptBudgets,
                       batch : {<<>>}]

\* The call: it returns the batch dict or raises ValueError.
TokenizeRequest ==
    LET batch == DpoTokenizeRow(preference.context, preference.chosen_continuation,
                                preference.rejected_continuation, preference.merges,
                                preference.truncation_mode, preference.max_length,
                                preference.max_prompt_length)
    IN  /\ preference.pc = "called"
        /\ preference' = [preference EXCEPT
                             !.pc = IF batch.raised THEN "raised" ELSE "returned",
                             !.batch = <<batch>>]
        /\ UNCHANGED runVars
        /\ UnitsUnchangedExcept("preference")

NextTokenizeRow == TokenizeRequest

SpecTokenizeRow == InitTokenizeRow /\ [][NextTokenizeRow]_vars

(***************************************************************************)
(* Claims on tokenize_row.                                                 *)
(***************************************************************************)
RowReturned == preference.pc # Idle /\ preference.pc = "returned"

\* The text of a continuation once the prompt is taken out of it.
Completion(continuation) == RemoveAll(continuation, preference.context)

\* The completion tokens of a continuation with the end-of-sequence token:
\* the tokens of the encoding of prompt + completion from the split point on.
SplitPoint(continuation) ==
    LET alone == Tokenizer(preference.context, preference.merges).input_ids
        full == Tokenizer(preference.context \o Completion(continuation),
                          preference.merges).input_ids
        merged == ~\E k \in 0..Len(full) : Concat(SubSeq(full, 1, k)) = preference.context
    IN  IF merged THEN Len(alone) - 1 ELSE Len(alone)

FullIds(continuation) ==
    TokenIds(Tokenizer(preference.context \o Completion(continuation),
                       preference.merges).input_ids)

WholeResponse(continuation) ==
    Append(SubSeq(FullIds(continuation), SplitPoint(continuation) + 1,
                  Len(FullIds(continuation))),
           eos_token_id)

LongerResponse ==
    Max(Len(WholeResponse(preference.chosen_continuation)),
        Len(WholeResponse(preference.rejected_continuation)))

\* The BOS-prefixed prompt of a sequence, cut as the truncation mode says
\* when prompt and longer response exceed max_length.
PromptKept(continuation) ==
    LET whole == <<bos_token_id>> \o SubSeq(FullIds(continuation), 1, SplitPoint(continuation))
        n == Min(preference.max_prompt_length, Len(whole))
    IN  IF Len(whole) + LongerResponse <= preference.max_length THEN whole
        ELSE IF preference.truncation_mode = "keep_start" THEN SubSeq(whole, 1, n)
        ELSE SubSeq(whole, Len(whole) - n + 1, Len(whole))

\* Labels mask exactly the prompt of a sequence.
LabelsMaskPrompt(continuation, input_ids, labels) ==
    LET kept == PromptKept(continuation)
    IN  /\ Len(labels) = Len(input_ids)
        /\ Len(kept) <= Len(input_ids)
        /\ SubSeq(input_ids, 1, Len(kept)) = kept
        /\ \A i \in 1..Len(labels) :
              labels[i] = (IF i <= Len(kept) THEN label_pad_token_id ELSE input_ids[i])

\* C21: in every row tokenize_row produces, chosen_labels has the length of
\* chosen_input_ids, is -100 at exactly the positions of the BOS-prefixed,
\* possibly truncated prompt and equals chosen_input_ids at every completion
\* position; the same for rejected_labels and rejected_input_ids.
C21_LabelsMaskPrompt ==
    RowReturned =>
        LET batch == preference.batch[1]
        IN  /\ LabelsMaskPrompt(preference.chosen_continuation,
                                batch.chosen_input_ids, batch.chosen_labels)
            /\ LabelsMaskPrompt(preference.rejected_continuation,
                                batch.rejected_input_ids, batch.rejected_labels)

\* A row whose prompt was cut to its latest tokens and whose chosen
\* sequence keeps two completion positions.
C21_Witness ==
    /\ RowReturned
    /\ preference.truncation_mode = "keep_end"
    /\ preference.max_length >= 4
    /\ Len(PromptKept(preference.chosen_continuation)) = 2
    /\ Len(Tokenizer(preference.context, preference.merges).input_ids) >= 2
    /\ Len(preference.batch[1].chosen_input_ids) >= 4
    /\ preference.batch[1].chosen_labels[3] # label_pad_token_id

\* The completion part of a sequence is a prefix of the whole response and
\* is shorter only if the kept prompt and the longer response exceed
\* max_length.
ResponseCutLast(continuation, input_ids) ==
    LET kept == PromptKept(continuation)
        whole == WholeResponse(continuation)
        part == SubSeq(input_ids, Len(kept) + 1, Len(input_ids))
    IN  /\ Len(kept) <= Len(input_ids)
        /\ SubSeq(input_ids, 1, Len(kept)) = kept
        /\ Len(part) <= Len(whole)
        /\ part = SubSeq(whole, 1, Len(part))
        /\ Len(part) < Len(whole) => Len(kept) + LongerResponse > preference.max_length

\* C22 (as claimed): after tokenize_row, chosen_input_ids and
\* rejected_input_ids have at most max_length tokens each; the prompt is
\* truncated first (keep_start keeps its earliest tokens, keep_end its
\* latest) and a completion is shortened only if prompt truncation alone did
\* not bring the sequence within max_length.
C22_WithinMaxLength ==
    RowReturned =>
        LET batch == preference.batch[1]
        IN  /\ Len(batch.chosen_input_ids) <= preference.max_length
            /\ Len(batch.rejected_input_ids) <= preference.max_length
            /\ ResponseCutLast(preference.chosen_continuation, batch.chosen_input_ids)
            /\ ResponseCutLast(preference.rejected_continuation, batch.rejected_input_ids)

(***************************************************************************)
(* The configuration, the construction of the model and one dpo_inference  *)
(* call without accelerator (specification SpecDpo).  Log-probabilities are *)
(* integers: the model gives every label a multiple of LogpUnit.           *)
(***************************************************************************)
MaxDpoRequests == 2
LogpUnit == 6

\* config.ref_free_norm, as the caller may set it.
RefFreeNorms == {"none", "avg", "sum", "norm", "mean"}

\* self._max_length and self.max_prompt_length of the calls explored.
DpoWindow == 4
DpoPromptBudget == 2

\* The preference pairs of the calls explored; the second needs truncation.
DpoRequests ==
    { [context |-> <<"a">>, chosen_continuation |-> <<"b">>,
       rejected_continuation |-> <<"a">>],
      [context |-> <<"b", "a", "b">>, chosen_continuation |-> <<"a", "b">>,
       rejected_continuation |-> <<"b">>] }

\* Reference log-probabilities a request may carry into the batch.
ReferenceLogps == {<<>>, <<[chosen |-> 0 - LogpUnit, rejected |-> 0 - 2 * LogpUnit]>>}

\* TransformersModelConfig.__post_init__ on the two generation options:
\* what generation_parameters is afterwards, or the ValueError.
PostInit(generation_config, generation_parameters) ==
    IF generation_config /\ generation_parameters
    THEN [raised |-> TRUE, generation_parameters |-> "given"]
    ELSE IF ~generation_parameters /\ ~generation_config
    THEN [raised |-> FALSE, generation_parameters |-> "default"]
    ELSE [raised |-> FALSE,
          generation_parameters |-> IF generation_parameters THEN "given" ELSE "unset"]

\* pad_to_length(tensor, length, pad_value) on one row.
PadToLength(tensor, length, pad_value) ==
    IF Len(tensor) >= length THEN tensor
    ELSE tensor \o Repeat(pad_value, length - Len(tensor))

\* The collated batch of rows (padded to the longest row of the batch) and
\* concatenated_inputs: the chosen rows followed by the rejected rows, all
\* padded to the longer of the two widths.
ConcatenatedInputs(rows) ==
    LET widths == {Len(rows[i].chosen_input_ids) : i \in 1..Len(rows)}
                  \cup {Len(rows[i].rejected_input_ids) : i \in 1..Len(rows)}
        max_length_ == CHOOSE w \in widths : \A v \in widths : v <= w
        chosen == [i \in 1..Len(rows) |->
                      [input_ids |-> PadToLength(rows[i].chosen_input_ids, max_length_,
                                                 pad_token_id),
                       labels |-> PadToLength(rows[i].chosen_labels, max_length_,
                                              label_pad_token_id)]]
        rejected == [i \in 1..Len(rows) |->
                        [input_ids |-> PadToLength(rows[i].rejected_input_ids, max_length_,
                                                   pad_token_id),
                         labels |-> PadToLength(rows[i].rejected_labels, max_length_,
                                                label_pad_token_id)]]
    IN  chosen \o rejected

\* The log-probability the model gives the label at (1-based) position i of
\* a row: a negative multiple of LogpUnit.
PerTokenLogp(i, label) == 0 - LogpUnit * (1 + i + (label % 3))

RECURSIVE SumOver(_, _)
SumOver(f, S) ==
    IF S = {} THEN 0
    ELSE LET x == CHOOSE y \in S : TRUE IN f[x] + SumOver(f, S \ {x})

\* The integer part of the square root of n, known to be at most bound.
IntSqrt(n, bound) == CHOOSE r \in 0..bound : r * r <= n /\ (r + 1) * (r + 1) > n

\* get_batch_logps on one row: labels[1:] against logits[:-1], over the
\* positions whose label is not label_pad_token_id.
GetBatchLogps(labels, average_log_prob, norm_log_prob) ==
    LET positions == {i \in 2..Len(labels) : labels[i] # label_pad_token_id}
        per_token_logps == [i \in positions |-> PerTokenLogp(i, labels[i])]
        squares == [i \in positions |-> per_token_logps[i] * per_token_logps[i]]
    IN  IF average_log_prob
        THEN 0 - ((0 - SumOver(per_token_logps, positions)) \div Cardinality(positions))
        ELSE IF norm_log_prob
        THEN 0 - IntSqrt(SumOver(squares, positions),
                         0 - SumOver(per_token_logps, positions))
        ELSE SumOver(per_token_logps, positions)

\* concatenated_forward(batch): the forward pass, then the normalization
\* mode is read; raised = TRUE for the ValueError of an unknown mode.
ConcatenatedForward(rows, ref_free_norm) ==
    LET len_chosen == Len(rows)
        concatenated_batch == ConcatenatedInputs(rows)
        average_log_prob == ref_free_norm = "avg"
        norm_log_prob == ref_free_norm = "norm"
        all_logps == [k \in 1..Len(concatenated_batch) |->
                         GetBatchLogps(concatenated_batch[k].labels,
                                       average_log_prob, norm_log_prob)]
    IN  IF ref_free_norm \notin {"norm", "avg", "sum", "none"}
        THEN [raised |-> TRUE, chosen_logps |-> <<>>, rejected_logps |-> <<>>]
        ELSE [raised |-> FALSE,
              chosen_logps |-> SubSeq(all_logps, 1, len_chosen),
              rejected_logps |-> SubSeq(all_logps, len_chosen + 1, Len(all_logps))]

\* rewards_chosen / rewards_rejected of a batch: ref_logps is <<>> when the
\* batch has no reference log-probabilities.
Rewards(policy_logps, ref_logps, ref_free_norm) ==
    IF ref_free_norm = "none"
    THEN [ix \in 1..Len(policy_logps) |->
             policy_logps[ix] - (IF ref_logps = <<>> THEN 0 ELSE ref_logps[ix])]
    ELSE policy_logps

InitDpo ==
    /\ IdleRun
    /\ UnitsIdleExcept("dpo")
    /\ \E n \in 1..MaxDpoRequests :
          dpo \in [pc : {"config"},
                   generation_config : BOOLEAN,
                   generation_parameters : BOOLEAN,
                   parameters : {"unset"},
                   config_ref_free_norm : RefFreeNorms,
                   truncation_mode : {"unset"},
                   ref_free_norm : {"unset"},
                   requests : [1..n -> DpoRequests],
                   reference : ReferenceLogps,
                   batch_size : 1..MaxDpoRequests,
                   rows : {<<>>},
                   forwards : {0},
                   res : {<<>>}]

\* TransformersModelConfig(...): __post_init__ runs at construction.
ConstructConfig ==
    LET out == PostInit(dpo.generation_config, dpo.generation_parameters)
    IN  /\ dpo.pc = "config"
        /\ dpo' = [dpo EXCEPT !.pc = IF out.raised THEN "raised" ELSE "configured",
                              !.parameters = out.generation_parameters]
        /\ UNCHANGED runVars
        /\ UnitsUnchangedExcept("dpo")

\* TransformersModel.__init__: truncation_mode is set to "keep_end" and
\* ref_free_norm is stored as the config gives it, without a check.
ConstructModel ==
    /\ dpo.pc = "configured"
    /\ dpo' = [dpo EXCEPT !.pc = "tokenize",
                          !.truncation_mode = "keep_end",
                          !.ref_free_norm = dpo.config_ref_free_norm]
    /\ UNCHANGED runVars
    /\ UnitsUnchangedExcept("dpo")

\* dpo_inference, `for request in requests`: the next request is tokenized.
TokenizeNextRequest ==
    LET request == dpo.requests[Len(dpo.rows) + 1]
        batch == DpoTokenizeRow(request.context, request.chosen_continuation,
                                request.rejected_continuation, <<>>,
                                dpo.truncation_mode, DpoWindow, DpoPromptBudget)
    IN  /\ dpo.pc = "tokenize"
        /\ Len(dpo.rows) < Len(dpo.requests)
        /\ dpo' = IF batch.raised THEN [dpo EXCEPT !.pc = "raised"]
                  ELSE [dpo EXCEPT !.rows = Append(@, batch)]
        /\ UNCHANGED runVars
        /\ UnitsUnchangedExcept("dpo")

\* dpo_inference, `for batch in dataloader`: the next batch_size rows go
\* through concatenated_forward and their responses are appended.
ForwardBatch ==
    LET first == Len(dpo.res) + 1
        last == Min(Len(dpo.res) + dpo.batch_size, Len(dpo.rows))
        rows == SubSeq(dpo.rows, first, last)
        out == ConcatenatedForward(rows, dpo.ref_free_norm)
        ref_chosen_logps == IF dpo.reference = <<>> THEN <<>>
                            ELSE [ix \in 1..Len(rows) |-> dpo.reference[1].chosen]
        ref_rejected_logps == IF dpo.reference = <<>> THEN <<>>
                              ELSE [ix \in 1..Len(rows) |-> dpo.reference[1].rejected]
        rewards_chosen == Rewards(out.chosen_logps, ref_chosen_logps, dpo.ref_free_norm)
        rewards_rejected == Rewards(out.rejected_logps, ref_rejected_logps, dpo.ref_free_norm)
    IN  /\ dpo.pc = "tokenize"
        /\ Len(dpo.rows) = Len(dpo.requests)
        /\ Len(dpo.res) < Len(dpo.rows)
        /\ dpo' = IF out.raised
                  THEN [dpo EXCEPT !.pc = "raised", !.forwards = @ + 1]
                  ELSE [dpo EXCEPT
                           !.forwards = @ + 1,
                           !.res = @ \o [ix \in 1..Len(rows) |->
                                           [result |-> <<rewards_chosen[ix], rewards_rejected[ix]>>,
                                            policy_chosen_logps |-> out.chosen_logps[ix],
                                            policy_rejected_logps |-> out.rejected_logps[ix]]]]
        /\ UNCHANGED runVars
        /\ UnitsUnchangedExcept("dpo")

\* `return res`.
ReturnDpo ==
    /\ dpo.pc = "tokenize"
    /\ Len(dpo.rows) = Len(dpo.requests)
    /\ Len(dpo.res) = Len(dpo.rows)
    /\ dpo' = [dpo EXCEPT !.pc = "returned"]
    /\ UNCHANGED runVars
    /\ UnitsUnchangedExcept("dpo")

NextDpo ==
    \/ ConstructConfig
    \/ ConstructModel
    \/ TokenizeNextRequest
    \/ ForwardBatch
    \/ ReturnDpo

SpecDpo == InitDpo /\ [][NextDpo]_vars


(***************************************************************************)
(* Claims on the configuration errors and on the rewards (SpecDpo).        *)
(***************************************************************************)
\* The config names a normalization mode concatenated_forward does not know.
UnknownRefFreeNorm == dpo.config_ref_free_norm \notin {"none", "avg", "sum", "norm"}

\* C23: configuration errors are raised at setup: with an unknown
\* ref_free_norm no request is ever tokenized, no forward pass ever runs and
\* no result is returned, whatever the requests (the truncation mode is
\* fixed to "keep_end" by the construction, so it is never unknown here);
\* with both generation_config and generation_parameters set the
\* construction of the config raises (no model is ever built); with neither
\* set the constructed config holds default GenerationParameters.
C23_ConfigurationErrorsAtSetup ==
    dpo.pc # Idle =>
        /\ UnknownRefFreeNorm =>
               /\ Len(dpo.rows) = 0
               /\ dpo.forwards = 0
               /\ dpo.pc # "returned"
        /\ (dpo.generation_config /\ dpo.generation_parameters) =>
               /\ dpo.pc \in {"config", "raised"}
               /\ dpo.truncation_mode = "unset"
        /\ (~dpo.generation_config /\ ~dpo.generation_parameters /\ dpo.pc # "config") =>
               dpo.parameters = "default"

\* C24: in each of the four normalization modes the result pair of response
\* i is (policy_chosen - reference_chosen, policy_rejected -
\* reference_rejected) when the batch carries reference log-probabilities
\* and (policy_chosen, policy_rejected) when it carries none, the policy
\* values being those of request i's own chosen and rejected sequences.
C24_RewardIsPolicyMinusReference ==
    (dpo.pc # Idle /\ dpo.pc = "returned") =>
        \A i \in 1..Len(dpo.res) :
            LET own == dpo.rows[i]
                policy_chosen == GetBatchLogps(own.chosen_labels,
                                               dpo.ref_free_norm = "avg",
                                               dpo.ref_free_norm = "norm")
                policy_rejected == GetBatchLogps(own.rejected_labels,
                                                 dpo.ref_free_norm = "avg",
                                                 dpo.ref_free_norm = "norm")
            IN  /\ dpo.res[i].policy_chosen_logps = policy_chosen
                /\ dpo.res[i].policy_rejected_logps = policy_rejected
                /\ dpo.res[i].result =
                       IF dpo.reference = <<>>
                       THEN <<policy_chosen, policy_rejected>>
                       ELSE <<policy_chosen - dpo.reference[1].chosen,
                              policy_rejected - dpo.reference[1].rejected>>

====
